---- MODULE Spec2Model ----
(***************************************************************************)
(* A model of petrocoin's src/main.js: the Block class (constructor,       *)
(* calculateHash, mineBlock) and the Blockchain class (constructor,        *)
(* createGenesisBlock, getLatestBlock, addBlock, isChainValid), together   *)
(* with the external writes to stored blocks that the demo performs        *)
(* (petroCoin.chain[1].data = ...).                                        *)
(*                                                                         *)
(* JavaScript values are records [t, n, s]: t is the type tag, n the       *)
(* number of a "num", s the text of a "str".  A text is a sequence of      *)
(* character codes, so that string concatenation, substring and the        *)
(* implicit conversions of the + operator are computed, not assumed.       *)
(* A Number is a "num" when it is an integer up to 2^31 - 1 in size, and   *)
(* a "float", held as its Number::toString text, otherwise; NaN is "nan".  *)
(***************************************************************************)
EXTENDS Integers, Sequences, FiniteSets, TLC

(* ------------------------------------------------------------------ *)
(* JavaScript values and conversions                                   *)
(* ------------------------------------------------------------------ *)

Num(n) == [t |-> "num", n |-> n, s |-> <<>>]
Str(s) == [t |-> "str", n |-> 0, s |-> s]
Undef == [t |-> "undef", n |-> 0, s |-> <<>>]
NaN == [t |-> "nan", n |-> 0, s |-> <<>>]
Null == [t |-> "null", n |-> 0, s |-> <<>>]

\* Texts used by the program and by the conversions, as character codes.
TxtUndefined == <<117, 110, 100, 101, 102, 105, 110, 101, 100>>  \* undefined
TxtNaN == <<78, 97, 78>>                                          \* NaN
TxtNull == <<110, 117, 108, 108>>                                 \* null
TxtZero == <<48>>                                                 \* 0
TxtQuote == <<34>>                                                \* "
TxtAmountOpen == <<123, 34, 97, 109, 111, 117, 110, 116, 34, 58>> \* {"amount":
TxtClose == <<125>>                                               \* }
TxtEmptyObject == <<123, 125>>                                    \* {}
TxtGenesisDate == <<48, 49, 47, 48, 49, 47, 50, 48, 49, 56>>      \* 01/01/2018
TxtDate1 == <<49, 50, 47, 48, 49, 47, 50, 48, 49, 56>>            \* 12/01/2018
TxtDate2 == <<50, 49, 47, 48, 49, 47, 50, 48, 49, 56>>            \* 21/01/2018
TxtGenesisData == <<71, 101, 110, 101, 115, 105, 115, 32, 66, 108, 111, 99, 107>>
                                                                  \* Genesis Block

\* The decimal text of a non-negative integer.
RECURSIVE DigitsOf(_)
DigitsOf(n) ==
    IF n < 10 THEN <<48 + n>>
    ELSE DigitsOf(n \div 10) \o <<48 + (n % 10)>>

\* Number::toString of an integer: a minus sign before the digits of a
\* negative one.
NumberToString(n) == IF n < 0 THEN <<45>> \o DigitsOf(0 - n) ELSE DigitsOf(n)

\* StrWhiteSpaceChar: the white space and line terminator code units that
\* StringToNumber strips from both ends.
StrWhiteSpaceChar ==
    {9, 10, 11, 12, 13, 32, 160, 5760, 8232, 8233, 8239, 8287, 12288, 65279}
        \cup (8192..8202)

RECURSIVE TrimStart(_)
TrimStart(s) ==
    IF s # <<>> /\ s[1] \in StrWhiteSpaceChar THEN TrimStart(Tail(s)) ELSE s

RECURSIVE TrimEnd(_)
TrimEnd(s) ==
    IF s # <<>> /\ s[Len(s)] \in StrWhiteSpaceChar
    THEN TrimEnd(SubSeq(s, 1, Len(s) - 1))
    ELSE s

\* The value of a digit character; 99 for any other character.
DigitValue(c) ==
    IF c \in 48..57 THEN c - 48
    ELSE IF c \in 97..102 THEN c - 87
    ELSE IF c \in 65..70 THEN c - 55
    ELSE 99

\* s is a non-empty run of digits of radix r.
IsDigits(s, r) == s # <<>> /\ \A k \in 1..Len(s) : DigitValue(s[k]) < r

\* The number written by the digits s in radix r (0 for no digits), for a
\* number below 2^31.
RECURSIVE ParseDigits(_, _)
ParseDigits(s, r) ==
    IF s = <<>> THEN 0
    ELSE r * ParseDigits(SubSeq(s, 1, Len(s) - 1), r) + DigitValue(s[Len(s)])

\* The radix of a NonDecimalIntegerLiteral prefix (0x, 0o, 0b in either
\* case); 10 when s has no such prefix.
RadixOf(s) ==
    IF Len(s) >= 2 /\ s[1] = 48
    THEN CASE s[2] \in {120, 88} -> 16
           [] s[2] \in {111, 79} -> 8
           [] s[2] \in {98, 66} -> 2
           [] OTHER -> 10
    ELSE 10

\* The least and the greatest number of S; d when S is empty.
LeastOf(S, d) == IF S = {} THEN d ELSE CHOOSE k \in S : \A j \in S : k <= j
GreatestOf(S, d) == IF S = {} THEN d ELSE CHOOSE k \in S : \A j \in S : k >= j

Max0(i) == IF i > 0 THEN i ELSE 0

\* The first position in s of a character of C; Len(s) + 1 when there is none.
IndexOf(s, C) == LeastOf({k \in 1..Len(s) : s[k] \in C}, Len(s) + 1)

\* A text without its leading sign, and whether that sign is a minus.
Unsigned(s) == IF s # <<>> /\ s[1] \in {43, 45} THEN Tail(s) ELSE s
IsNegative(s) == s # <<>> /\ s[1] = 45

\* The parts of an unsigned decimal literal: the mantissa before e or E, the
\* exponent behind it, and the digits before and behind the decimal point of
\* a mantissa.
Mantissa(s) == SubSeq(s, 1, IndexOf(s, {101, 69}) - 1)
Exponent(s) == SubSeq(s, IndexOf(s, {101, 69}) + 1, Len(s))
HasExponent(s) == IndexOf(s, {101, 69}) <= Len(s)
IntegerPart(m) == SubSeq(m, 1, IndexOf(m, {46}) - 1)
FractionPart(m) == SubSeq(m, IndexOf(m, {46}) + 1, Len(m))

\* m is digits with at most one decimal point and at least one digit.
IsMantissa(m) ==
    /\ \A k \in 1..Len(m) : k = IndexOf(m, {46}) \/ DigitValue(m[k]) < 10
    /\ Len(m) >= (IF IndexOf(m, {46}) <= Len(m) THEN 2 ELSE 1)

TxtInfinity == <<73, 110, 102, 105, 110, 105, 116, 121>>          \* Infinity

\* s, unsigned, is a StrUnsignedDecimalLiteral other than Infinity: a
\* mantissa, then an optional exponent of optionally signed digits.
IsDecimalLiteral(s) ==
    /\ IsMantissa(Mantissa(s))
    /\ HasExponent(s) => IsDigits(Unsigned(Exponent(s)), 10)

\* t, without white space around it, is a StrNumericLiteral.
IsStrNumericLiteral(t) ==
    IF RadixOf(t) # 10 THEN IsDigits(SubSeq(t, 3, Len(t)), RadixOf(t))
    ELSE Unsigned(t) = TxtInfinity \/ IsDecimalLiteral(Unsigned(t))

\* A run of digits without its leading zeros.
StripLeadingZeros(d) == SubSeq(d, IndexOf(d, (0..65535) \ {48}), Len(d))

ZeroString(d) == [k \in 1..d |-> 48]

\* The number written by optionally signed digits (0 for no digits), kept
\* within -999999..999999: an exponent beyond that range stands for the same
\* Number value as the range's end.
SignedDigitsValue(x) ==
    LET d == StripLeadingZeros(Unsigned(x))
    IN (IF IsNegative(x) THEN 0 - 1 ELSE 1)
           * (IF Len(d) > 6 THEN 999999 ELSE ParseDigits(d, 10))

(* ------------------------------------------------------------------ *)
(* Natural numbers of any size, for the arithmetic of Number values:   *)
(* a sequence of 15-bit limbs, the lowest first, the highest not 0.    *)
(* ------------------------------------------------------------------ *)

LimbBase == 32768

Limb(a, i) == IF i \in 1..Len(a) THEN a[i] ELSE 0

NatTrim(a) == SubSeq(a, 1, GreatestOf({i \in 1..Len(a) : a[i] # 0}, 0))

\* The limbs lo..hi of the number with the limb sums x and the carry c into
\* limb lo, and the carry out of limb hi.
RECURSIVE Carry(_, _, _, _)
Carry(x, c, lo, hi) ==
    IF lo > hi THEN <<<<>>, c>>
    ELSE IF lo = hi
    THEN <<<<(x[lo] + c) % LimbBase>>, (x[lo] + c) \div LimbBase>>
    ELSE CHOOSE r \in
             UNION {{<<l[1] \o u[1], u[2]>> :
                        u \in {Carry(x, l[2], (lo + hi) \div 2 + 1, hi)}} :
                            l \in {Carry(x, c, lo, (lo + hi) \div 2)}} : TRUE

NatOf(x, c) ==
    CHOOSE r \in {NatTrim(l[1] \o <<l[2]>>) : l \in {Carry(x, c, 1, Len(x))}} :
        TRUE

NatAdd(a, b) ==
    NatOf([i \in 1..(IF Len(a) > Len(b) THEN Len(a) ELSE Len(b)) |->
              Limb(a, i) + Limb(b, i)], 0)

\* a - b for a >= b.
NatSub(a, b) == NatOf([i \in 1..Len(a) |-> a[i] - Limb(b, i)], 0)

\* a * f + c for f and c below LimbBase.
NatMulAdd(a, f, c) == NatOf([i \in 1..Len(a) |-> a[i] * f], c)

NatLess(a, b) ==
    IF Len(a) # Len(b) THEN Len(a) < Len(b)
    ELSE \E i \in 1..Len(a) :
             a[i] < b[i] /\ \A j \in (i + 1)..Len(a) : a[j] = b[j]

\* a * 2^k.
NatShiftLeft(a, k) ==
    NatTrim([i \in 1..(Len(a) + k \div 15 + 1) |->
        IF i <= k \div 15 THEN 0
        ELSE ((Limb(a, i - k \div 15) * (2 ^ (k % 15))) % LimbBase)
             + ((Limb(a, i - k \div 15 - 1) * (2 ^ (k % 15))) \div LimbBase)])

\* The number of bits of a: 0 for 0.
NatBitLen(a) ==
    IF a = <<>> THEN 0
    ELSE 15 * (Len(a) - 1)
         + (CHOOSE n \in 1..15 : 2 ^ (n - 1) <= a[Len(a)] /\ a[Len(a)] < 2 ^ n)

\* The natural number n below 2^31.
NatOfInt(n) ==
    NatTrim(<<n % LimbBase, (n \div LimbBase) % LimbBase,
              n \div (LimbBase * LimbBase)>>)

\* a * 10^k.
RECURSIVE NatTimesTen(_, _)
NatTimesTen(a, k) ==
    IF k < 5 THEN NatMulAdd(a, 10 ^ k, 0)
    ELSE CHOOSE r \in {NatTimesTen(x, k - k \div 2) :
                         x \in {NatTimesTen(a, k \div 2)}} : TRUE

\* acc * r^(hi - lo + 1) + the number written by the digits lo..hi of s in
\* radix r.
RECURSIVE NatOfDigits(_, _, _, _, _)
NatOfDigits(acc, s, r, lo, hi) ==
    IF lo > hi THEN acc
    ELSE IF lo = hi THEN NatMulAdd(acc, r, DigitValue(s[lo]))
    ELSE CHOOSE y \in {NatOfDigits(x, s, r, (lo + hi) \div 2 + 1, hi) :
                         x \in {NatOfDigits(acc, s, r, lo, (lo + hi) \div 2)}} :
             TRUE

(* ------------------------------------------------------------------ *)
(* Number values: IEEE 754 binary64.  Within the arithmetic a Number   *)
(* is a record [neg, inf, m, e]: the value is m * 2^e, negated when    *)
(* neg; inf marks an infinity.  m is below 2^53, e is from -1074 on.   *)
(* ------------------------------------------------------------------ *)

Binary(neg, inf, m, e) == [neg |-> neg, inf |-> inf, m |-> m, e |-> e]

\* P and Q brought to the same number of bits, d being the bits P had more.
Aligned(P, Q, d) ==
    IF d >= 0 THEN <<P, NatShiftLeft(Q, d), d>>
    ELSE <<NatShiftLeft(P, 0 - d), Q, d>>

\* P doubled where it is below Q: then Q <= P < 2Q, and a[3] is the
\* exponent of the highest bit of the quotient.
Normalised(a) ==
    IF NatLess(a[1], a[2]) THEN <<NatShiftLeft(a[1], 1), a[2], a[3] - 1>>
    ELSE a

\* One more bit of the quotient: q is the remainder so far (below 2Q) with
\* the bits so far.
QuotientStep(q, Q) ==
    IF NatLess(q[1], Q)
    THEN <<NatShiftLeft(q[1], 1), NatMulAdd(q[2], 2, 0)>>
    ELSE <<NatShiftLeft(NatSub(q[1], Q), 1), NatMulAdd(q[2], 2, 1)>>

RECURSIVE QuotientBits(_, _, _)
QuotientBits(q, Q, n) ==
    IF n <= 0 THEN q
    ELSE IF n = 1 THEN QuotientStep(q, Q)
    ELSE CHOOSE r \in {QuotientBits(x, Q, n - n \div 2) :
                         x \in {QuotientBits(q, Q, n \div 2)}} : TRUE

\* The Number m * 2^e: 0 when m is 0, an infinity from 2^1024 on; 2^53 is
\* written 2^52 * 2.
Packed(neg, m, e) ==
    IF m = <<>> THEN Binary(neg, FALSE, <<>>, 0)
    ELSE IF NatBitLen(m) + e > 1024 THEN Binary(neg, TRUE, <<>>, 0)
    ELSE IF NatBitLen(m) = 54 THEN Binary(neg, FALSE, <<0, 0, 0, 128>>, e + 1)
    ELSE Binary(neg, FALSE, m, e)

\* The quotient a[1] / a[2], times 2^(a[3] + x), as a Number.  A Number
\* keeps 53 bits of a value, fewer below 2^-1022.  Round to nearest, ties to
\* even: the bits q[2] are raised by one when the remainder q[1] is above
\* half, or is half and the bits are odd.
RoundAligned(neg, a, x) ==
    LET E == a[3] + x
        bits == IF E >= 0 - 1022 THEN 53 ELSE E + 1075
    IN IF bits < 0 THEN Binary(neg, FALSE, <<>>, 0)
       ELSE CHOOSE r \in
                {Packed(neg,
                        IF \/ NatLess(a[2], q[1])
                           \/ q[1] = a[2] /\ q[2] # <<>> /\ q[2][1] % 2 = 1
                        THEN NatAdd(q[2], <<1>>)
                        ELSE q[2],
                        E - bits + 1) :
                    q \in {QuotientBits(<<a[1], <<>>>>, a[2], bits)}} : TRUE

\* The Number value for (P / Q) * 2^x: the nearest Number, the even one of
\* two that are equally near (Q is not 0).
RoundRatio(neg, P, Q, x) ==
    IF P = <<>> THEN Binary(neg, FALSE, <<>>, 0)
    ELSE CHOOSE r \in {RoundAligned(neg, a, x) :
             a \in {Normalised(Aligned(P, Q, NatBitLen(P) - NatBitLen(Q)))}} :
                 TRUE

\* The Number value for d * 10^k, d being decimal digits without leading
\* zeros.  Beyond 10^310 every value is an infinity, below 10^-330 it is 0.
DecimalToBinary(neg, d, k) ==
    IF d = <<>> THEN Binary(neg, FALSE, <<>>, 0)
    ELSE IF Len(d) + k > 310 THEN Binary(neg, TRUE, <<>>, 0)
    ELSE IF Len(d) + k < 0 - 330 THEN Binary(neg, FALSE, <<>>, 0)
    ELSE RoundRatio(neg,
                    NatTimesTen(NatOfDigits(<<>>, d, 10, 1, Len(d)), Max0(k)),
                    NatTimesTen(<<1>>, Max0(0 - k)), 0)

\* The Number value of a StrNumericLiteral t: of the digits behind a radix
\* prefix, of Infinity, or of a mantissa with its exponent part.
LiteralValue(t) ==
    LET m == Mantissa(Unsigned(t))
    IN IF RadixOf(t) # 10
       THEN RoundRatio(FALSE,
                       NatOfDigits(<<>>, t, RadixOf(t), 3, Len(t)), <<1>>, 0)
       ELSE IF Unsigned(t) = TxtInfinity
       THEN Binary(IsNegative(t), TRUE, <<>>, 0)
       ELSE DecimalToBinary(IsNegative(t),
                StripLeadingZeros(IntegerPart(m) \o FractionPart(m)),
                SignedDigitsValue(Exponent(Unsigned(t)))
                    - Len(FractionPart(m)))

(* ------------------------------------------------------------------ *)
(* Number::toString: the fewest decimal digits that still denote the   *)
(* Number, the nearest to its value among those.                       *)
(* ------------------------------------------------------------------ *)

\* m * 2^e / 10^(n - 1) as numerator and denominator.
ScaledNumerator(m, e, n) == NatTimesTen(NatShiftLeft(m, Max0(e)), Max0(1 - n))
ScaledDenominator(e, n) ==
    NatTimesTen(NatShiftLeft(<<1>>, Max0(0 - e)), Max0(n - 1))

\* The n with 10^(n - 1) <= m * 2^e < 10^n; it is n0 or next to n0, the
\* estimate from the number of bits.
DecimalPoint(m, e) ==
    LET n0 == ((NatBitLen(m) + e - 1) * 30103) \div 100000 + 1
        AtLeastPowerOfTen(n) ==
            ~NatLess(ScaledNumerator(m, e, n), ScaledDenominator(e, n))
    IN CHOOSE n \in (n0 - 1)..(n0 + 1) :
           AtLeastPowerOfTen(n) /\ ~AtLeastPowerOfTen(n + 1)

\* One more digit of P / Q (below 10): p is the remainder so far with the
\* digits so far.
DigitStep(p, Q) ==
    CHOOSE r \in
        {<<NatMulAdd(NatSub(p[1], NatMulAdd(Q, d, 0)), 10, 0),
           Append(p[2], 48 + d)>> :
            d \in {CHOOSE c \in 0..9 :
                       /\ ~NatLess(p[1], NatMulAdd(Q, c, 0))
                       /\ NatLess(p[1], NatMulAdd(Q, c + 1, 0))}} : TRUE

\* n more digits: p is the remainder so far with the digits so far.
RECURSIVE DecimalDigits(_, _, _)
DecimalDigits(p, Q, n) ==
    IF n = 1 THEN CHOOSE r \in {DigitStep(x, Q) : x \in {p}} : TRUE
    ELSE CHOOSE r \in {DecimalDigits(x, Q, n - n \div 2) :
                         x \in {DecimalDigits(p, Q, n \div 2)}} : TRUE

\* The digits d with one added in the last place.
DigitsPlusOne(d) ==
    LET j == GreatestOf({i \in 1..Len(d) : d[i] # 57}, 0)
    IN IF j = 0 THEN <<49>> \o ZeroString(Len(d))
       ELSE [i \in 1..Len(d) |->
                IF i < j THEN d[i] ELSE IF i = j THEN d[i] + 1 ELSE 48]

\* The value lies nearer to the first k digits raised by one than to the
\* first k digits (p[1] is the remainder behind the 18 digits p[2]).
UpperIsNearer(p, k) ==
    \/ p[2][k + 1] > 53
    \/ /\ p[2][k + 1] = 53
       /\ \/ p[1] # <<>>
          \/ \E i \in (k + 2)..18 : p[2][i] # 48
          \/ p[2][k] % 2 = 1

\* The two candidates with k digits, the nearer first.
Candidates(p, k) ==
    IF UpperIsNearer(p, k)
    THEN <<DigitsPlusOne(SubSeq(p[2], 1, k)), SubSeq(p[2], 1, k)>>
    ELSE <<SubSeq(p[2], 1, k), DigitsPlusOne(SubSeq(p[2], 1, k))>>

\* The first of the candidates cs that denotes b, when read with its last
\* digit at 10^x; no digits when none does.
Chosen(cs, x, b) ==
    CHOOSE r \in
        {IF i = 0 THEN <<>> ELSE cs[i] :
            i \in {LeastOf({j \in 1..Len(cs) :
                               DecimalToBinary(b.neg, cs[j], x) = b}, 0)}} :
        TRUE

\* The digits, without zeros at their end, and the decimal point n of b (its
\* value is 0.digits * 10^n), looked for with k digits and more; 17 digits
\* always denote b.
RECURSIVE ShortestFrom(_, _, _, _)
ShortestFrom(p, k, n, b) ==
    CHOOSE r \in
        {IF c # <<>> \/ k >= 17
         THEN <<SubSeq(c, 1, GreatestOf({j \in 1..Len(c) : c[j] # 48}, 0)),
                n + Len(c) - k>>
         ELSE ShortestFrom(p, k + 1, n, b) :
            c \in {Chosen(Candidates(p, k), n - k, b)}} : TRUE

ShortestDecimal(b) ==
    CHOOSE r \in
        UNION {{ShortestFrom(p, 1, n, b) :
                   p \in {DecimalDigits(
                              <<ScaledNumerator(b.m, b.e, n), <<>>>>,
                              ScaledDenominator(b.e, n), 18)}} :
                       n \in {DecimalPoint(b.m, b.e)}} : TRUE

\* Number::toString of the positive Number with the digits d and the decimal
\* point n: plain digits up to 10^21, a decimal fraction down to 10^-6, the
\* exponent form beyond.
NumberText(d, n) ==
    CASE Len(d) <= n /\ n <= 21 -> d \o ZeroString(n - Len(d))
      [] 0 < n /\ n < Len(d) ->
            SubSeq(d, 1, n) \o <<46>> \o SubSeq(d, n + 1, Len(d))
      [] 0 - 6 < n /\ n <= 0 -> <<48, 46>> \o ZeroString(0 - n) \o d
      [] OTHER ->
            <<d[1]>> \o (IF Len(d) > 1 THEN <<46>> \o Tail(d) ELSE <<>>)
                \o <<101, IF n < 1 THEN 45 ELSE 43>>
                \o DigitsOf(IF n < 1 THEN 1 - n ELSE n - 1)

\* The digits p do not write more than the digits q of the same length.
DigitsAtMost(p, q) ==
    \A i \in 1..Len(p) : (\A j \in 1..(i - 1) : p[j] = q[j]) => p[i] <= q[i]

(* ------------------------------------------------------------------ *)
(* Number values as JavaScript values: an integer up to 2^31 - 1 in    *)
(* size is Num(n); every other Number is Float(s), s its               *)
(* Number::toString text (Infinity, -Infinity, 1.5, 1e+21), and -0     *)
(* for the negative zero.                                              *)
(* ------------------------------------------------------------------ *)

Float(s) == [t |-> "float", n |-> 0, s |-> s]
NegativeZero == Float(<<45, 48>>)

\* The value with the shortest digits d and the decimal point n: a "num"
\* when that is an integer up to 2^31 - 1 = 2147483647.
NumberOfDecimal(neg, d, n) ==
    IF /\ Len(d) <= n
       /\ n <= 10
       /\ n = 10 => DigitsAtMost(d \o ZeroString(n - Len(d)),
                                 <<50, 49, 52, 55, 52, 56, 51, 54, 52, 55>>)
    THEN Num((IF neg THEN 0 - 1 ELSE 1)
                 * ParseDigits(d \o ZeroString(n - Len(d)), 10))
    ELSE Float((IF neg THEN <<45>> ELSE <<>>) \o NumberText(d, n))

\* The JavaScript value of a Number b.
NumberOf(b) ==
    IF b.inf THEN Float((IF b.neg THEN <<45>> ELSE <<>>) \o TxtInfinity)
    ELSE IF b.m = <<>> THEN (IF b.neg THEN NegativeZero ELSE Num(0))
    ELSE CHOOSE r \in {NumberOfDecimal(b.neg, sd[1], sd[2]) :
                         sd \in {ShortestDecimal(b)}} : TRUE

\* The Number b of a JavaScript value that is a Number.
BinaryOf(v) ==
    IF v.t = "num"
    THEN Binary(v.n < 0, FALSE, NatOfInt(IF v.n < 0 THEN 0 - v.n ELSE v.n), 0)
    ELSE LiteralValue(v.s)

\* StringToNumber: white space is stripped from both ends; the empty text
\* is 0, a text that is not a StrNumericLiteral is NaN.
StringToNumber(s) ==
    LET t == TrimEnd(TrimStart(s))
    IN IF t = <<>> THEN Num(0)
       ELSE IF ~IsStrNumericLiteral(t) THEN NaN
       ELSE NumberOf(LiteralValue(t))

\* ToString: what string concatenation does to an operand.
ToStr(v) ==
    CASE v.t = "str" -> v.s
      [] v.t = "num" -> NumberToString(v.n)
      [] v.t = "float" -> IF v = NegativeZero THEN TxtZero ELSE v.s
      [] v.t = "undef" -> TxtUndefined
      [] v.t = "nan" -> TxtNaN
      [] v.t = "null" -> TxtNull

\* ToNumber: what numeric addition and ++ do to an operand.
ToNum(v) ==
    CASE v.t = "num" -> v
      [] v.t = "float" -> v
      [] v.t = "null" -> Num(0)
      [] v.t = "str" -> StringToNumber(v.s)
      [] v.t = "undef" -> NaN
      [] v.t = "nan" -> NaN

\* The sum of two magnitudes with their signs: the sign and the magnitude.
SignedSum(aneg, A, bneg, B) ==
    IF aneg = bneg THEN <<aneg, NatAdd(A, B)>>
    ELSE IF A = B THEN <<FALSE, <<>>>>
    ELSE IF NatLess(A, B) THEN <<bneg, NatSub(B, A)>>
    ELSE <<aneg, NatSub(A, B)>>

\* The sum of two finite Numbers: the exact sum, rounded.
FiniteSum(a, b) ==
    LET e == IF a.e < b.e THEN a.e ELSE b.e
    IN CHOOSE r \in
           {RoundRatio(s[1], s[2], <<1>>, e) :
               s \in {SignedSum(a.neg, NatShiftLeft(a.m, a.e - e),
                                b.neg, NatShiftLeft(b.m, b.e - e))}} : TRUE

\* Number addition: NaN when either operand is NaN, and for infinities of
\* opposite sign.  Integers whose sum is within 2^31 are added as they are.
Add(x, y) ==
    IF x.t = "nan" \/ y.t = "nan" THEN NaN
    ELSE IF \A v \in {x, y} :
                v.t = "num" /\ v.n > 0 - 1073741824 /\ v.n < 1073741824
    THEN Num(x.n + y.n)
    ELSE CHOOSE r \in
             {IF a.inf /\ b.inf /\ a.neg # b.neg THEN NaN
              ELSE NumberOf(IF a.inf THEN a
                            ELSE IF b.inf THEN b
                            ELSE FiniteSum(a, b)) :
                 a \in {BinaryOf(x)}, b \in {BinaryOf(y)}} : TRUE

\* The binary + operator: concatenation when either operand is a string,
\* numeric addition otherwise.
Plus(a, b) ==
    IF a.t = "str" \/ b.t = "str"
    THEN Str(ToStr(a) \o ToStr(b))
    ELSE Add(ToNum(a), ToNum(b))

\* The postfix ++ operator's new value.
Increment(v) == Add(ToNum(v), Num(1))

\* The !== operator on primitive values: NaN differs from every value,
\* itself included, and the two zeros do not differ.
IsZero(v) == v = Num(0) \/ v = NegativeZero

StrictNotEquals(a, b) ==
    a.t = "nan" \/ b.t = "nan" \/ (a # b /\ ~(IsZero(a) /\ IsZero(b)))

\* A payload (Block.data) is a primitive value; an object with the single
\* property "amount"; an object with a toJSON method that returns
\* { amount: v } (JSON.stringify calls the method and serialises what it
\* returns; being the caller's code, the method may call into the chain
\* before it returns); or an object that holds itself (d = {}; d.self = d).
Prim(v) == [t |-> "prim", v |-> v]
Obj(v) == [t |-> "obj", v |-> v]
ToJSON(v) == [t |-> "tojson", v |-> v]
Cyclic == [t |-> "cyclic", v |-> Undef]

\* What a call that throws a TypeError gives in place of a value.
TypeError == [t |-> "TypeError", n |-> 0, s |-> <<>>]

HexDigit(n) == IF n < 10 THEN 48 + n ELSE 87 + n

\* The four lower-case hexadecimal digits of a 16-bit number.
Hex16(x) ==
    <<HexDigit(x \div 4096), HexDigit((x \div 256) % 16),
      HexDigit((x \div 16) % 16), HexDigit(x % 16)>>

IsHighSurrogate(c) == c \in 55296..56319
IsLowSurrogate(c) == c \in 56320..57343

\* The code unit at position i of s is one half of a surrogate pair.
InSurrogatePair(s, i) ==
    \/ IsHighSurrogate(s[i]) /\ i < Len(s) /\ IsLowSurrogate(s[i + 1])
    \/ IsLowSurrogate(s[i]) /\ i > 1 /\ IsHighSurrogate(s[i - 1])

\* QuoteJSONString on the code unit at position i of s: the quote, the
\* backslash and the control characters are escaped, a surrogate without its
\* pair is written \udxxx.
JSONEscapeAt(s, i) ==
    LET c == s[i]
    IN CASE c = 8 -> <<92, 98>>
         [] c = 9 -> <<92, 116>>
         [] c = 10 -> <<92, 110>>
         [] c = 12 -> <<92, 102>>
         [] c = 13 -> <<92, 114>>
         [] c = 34 -> <<92, 34>>
         [] c = 92 -> <<92, 92>>
         [] c < 32 /\ c \notin {8, 9, 10, 12, 13} -> <<92, 117>> \o Hex16(c)
         [] c \in 55296..57343 /\ ~InSurrogatePair(s, i) ->
                <<92, 117>> \o Hex16(c)
         [] OTHER -> <<c>>

RECURSIVE JSONEscapeRange(_, _, _)
JSONEscapeRange(s, lo, hi) ==
    IF lo > hi THEN <<>>
    ELSE IF lo = hi THEN JSONEscapeAt(s, lo)
    ELSE LET mid == (lo + hi) \div 2
         IN JSONEscapeRange(s, lo, mid) \o JSONEscapeRange(s, mid + 1, hi)

QuoteJSONString(s) == TxtQuote \o JSONEscapeRange(s, 1, Len(s)) \o TxtQuote

\* JSON.stringify of a primitive: a string is quoted, NaN, the infinities
\* and null all give null, undefined gives undefined (no text).
JSONPrim(v) ==
    CASE v.t = "str" -> Str(QuoteJSONString(v.s))
      [] v.t = "num" -> Str(NumberToString(v.n))
      [] v.t = "float" ->
            Str(IF Unsigned(v.s) = TxtInfinity THEN TxtNull ELSE ToStr(v))
      [] v.t = "nan" -> Str(TxtNull)
      [] v.t = "null" -> Str(TxtNull)
      [] v.t = "undef" -> Undef

\* JSON.stringify of a payload: an undefined property is left out, and an
\* object that holds itself is refused with a TypeError ("Converting
\* circular structure to JSON").
JSONstringify(d) ==
    IF d.t = "cyclic" THEN TypeError
    ELSE IF d.t = "prim" THEN JSONPrim(d.v)
    ELSE IF d.v.t = "undef" THEN Str(TxtEmptyObject)
    ELSE Str(TxtAmountOpen \o JSONPrim(d.v).s \o TxtClose)

(* ------------------------------------------------------------------ *)
(* SHA256(message).toString(), crypto-js: the SHA-256 digest of the    *)
(* message's UTF-8 bytes, as 64 lower-case hexadecimal digits.         *)
(* A 32-bit word is a pair <<high, low>> of 16-bit halves.             *)
(* ------------------------------------------------------------------ *)

\* Bitwise exclusive or and bitwise and of two n-bit numbers.
RECURSIVE XorN(_, _, _)
XorN(x, y, n) ==
    IF n = 0 THEN 0
    ELSE ((x + y) % 2) + 2 * XorN(x \div 2, y \div 2, n - 1)

RECURSIVE AndN(_, _, _)
AndN(x, y, n) ==
    IF n = 0 THEN 0
    ELSE ((x % 2) * (y % 2)) + 2 * AndN(x \div 2, y \div 2, n - 1)

Xor32(a, b) == <<XorN(a[1], b[1], 16), XorN(a[2], b[2], 16)>>
And32(a, b) == <<AndN(a[1], b[1], 16), AndN(a[2], b[2], 16)>>

\* Addition modulo 2^32.
Add32(a, b) ==
    LET lo == a[2] + b[2]
        hi == a[1] + b[1] + (lo \div 65536)
    IN <<hi % 65536, lo % 65536>>

\* Rotation and shift to the right by r bits, 0 <= r < 32.
RECURSIVE Rotr32(_, _)
Rotr32(w, r) ==
    IF r >= 16 THEN Rotr32(<<w[2], w[1]>>, r - 16)
    ELSE LET p == 2 ^ r
             q == 2 ^ (16 - r)
         IN <<(w[1] \div p) + (w[2] % p) * q, (w[2] \div p) + (w[1] % p) * q>>

Shr32(w, r) ==
    IF r >= 16 THEN <<0, w[1] \div (2 ^ (r - 16))>>
    ELSE LET p == 2 ^ r
             q == 2 ^ (16 - r)
         IN <<w[1] \div p, (w[2] \div p) + (w[1] % p) * q>>

BigSigma0(x) == Xor32(Xor32(Rotr32(x, 2), Rotr32(x, 13)), Rotr32(x, 22))
BigSigma1(x) == Xor32(Xor32(Rotr32(x, 6), Rotr32(x, 11)), Rotr32(x, 25))
SmallSigma0(x) == Xor32(Xor32(Rotr32(x, 7), Rotr32(x, 18)), Shr32(x, 3))
SmallSigma1(x) == Xor32(Xor32(Rotr32(x, 17), Rotr32(x, 19)), Shr32(x, 10))
Ch(x, y, z) == Xor32(z, And32(x, Xor32(y, z)))
Maj(x, y, z) == Xor32(And32(x, y), And32(z, Xor32(x, y)))

RoundConstants ==
    << <<17034, 12184>>, <<28983, 17553>>, <<46528, 64463>>, <<59829, 56229>>,
    <<14678, 49755>>, <<23025, 4593>>, <<37439, 33444>>, <<43804, 24277>>,
    <<55303, 43672>>, <<4739, 23297>>, <<9265, 34238>>, <<21772, 32195>>,
    <<29374, 23924>>, <<32990, 45566>>, <<39900, 1703>>, <<49563, 61812>>,
    <<58523, 27073>>, <<61374, 18310>>, <<4033, 40390>>, <<9228, 41420>>,
    <<11753, 11375>>, <<19060, 33962>>, <<23728, 43484>>, <<30457, 35034>>,
    <<38974, 20818>>, <<43057, 50797>>, <<45059, 10184>>, <<48985, 32711>>,
    <<50912, 3059>>, <<54695, 37191>>, <<1738, 25425>>, <<5161, 10599>>,
    <<10167, 2693>>, <<11803, 8504>>, <<19756, 28156>>, <<21304, 3347>>,
    <<25866, 29524>>, <<30314, 2747>>, <<33218, 51502>>, <<37490, 11397>>,
    <<41663, 59553>>, <<43034, 26187>>, <<49739, 35696>>, <<51052, 20899>>,
    <<53650, 59417>>, <<54937, 1572>>, <<62478, 13701>>, <<4202, 41072>>,
    <<6564, 49430>>, <<7735, 27656>>, <<10056, 30540>>, <<13488, 48309>>,
    <<14620, 3251>>, <<20184, 43594>>, <<23452, 51791>>, <<26670, 28659>>,
    <<29839, 33518>>, <<30885, 25455>>, <<33992, 30740>>, <<36039, 520>>,
    <<37054, 65530>>, <<42064, 27883>>, <<48889, 41975>>, <<50801, 30962>> >>

InitialHashValue ==
    << <<27145, 58983>>, <<47975, 44677>>, <<15470, 62322>>, <<42319, 62778>>,
    <<20750, 21119>>, <<39685, 26764>>, <<8067, 55723>>, <<23520, 52505>> >>

\* The message schedule: words lo..hi are appended to w, each computed from
\* the words before it.  (CHOOSE r \in {F(x) : x \in {e}} : TRUE is F(e),
\* with e computed before F is entered.)
RECURSIVE ExtendSchedule(_, _, _)
ExtendSchedule(w, lo, hi) ==
    IF lo > hi THEN w
    ELSE IF lo = hi
    THEN Append(w, Add32(Add32(SmallSigma1(w[lo - 2]), w[lo - 7]),
                         Add32(SmallSigma0(w[lo - 15]), w[lo - 16])))
    ELSE LET mid == (lo + hi) \div 2
         IN CHOOSE r \in {ExtendSchedule(x, mid + 1, hi) :
                             x \in {ExtendSchedule(w, lo, mid)}} : TRUE

\* One round on the working variables <<a, b, c, d, e, f, g, h>>.
ShaRound(v, w, k) ==
    LET t1 == Add32(Add32(Add32(v[8], BigSigma1(v[5])), Ch(v[5], v[6], v[7])),
                    Add32(k, w))
        t2 == Add32(BigSigma0(v[1]), Maj(v[1], v[2], v[3]))
    IN <<Add32(t1, t2), v[1], v[2], v[3], Add32(v[4], t1), v[5], v[6], v[7]>>

\* Rounds lo..hi.
RECURSIVE ShaRounds(_, _, _, _)
ShaRounds(v, w, lo, hi) ==
    IF lo = hi THEN ShaRound(v, w[lo], RoundConstants[lo])
    ELSE LET mid == (lo + hi) \div 2
         IN CHOOSE r \in {ShaRounds(x, w, mid + 1, hi) :
                             x \in {ShaRounds(v, w, lo, mid)}} : TRUE

\* The hash value after one more 16-word block.
ShaCompress(h, block) ==
    CHOOSE r \in {[i \in 1..8 |-> Add32(h[i], v[i])] :
                    v \in {ShaRounds(h, w, 1, 64) :
                              w \in {ExtendSchedule(block, 17, 64)}}} : TRUE

\* The UTF-8 bytes of the UTF-16 code unit at position i of s: a surrogate
\* pair gives 4 bytes at its first unit and none at its second.  The library
\* encodes with encodeURIComponent, which throws on a surrogate without its
\* pair: such a unit has no bytes here.
Utf8At(s, i) ==
    LET c == s[i]
    IN CASE c < 128 -> <<c>>
         [] c \in 128..2047 -> <<192 + (c \div 64), 128 + (c % 64)>>
         [] c >= 2048 /\ c \notin 55296..57343 ->
                <<224 + (c \div 4096), 128 + ((c \div 64) % 64), 128 + (c % 64)>>
         [] IsHighSurrogate(c) /\ InSurrogatePair(s, i) ->
                LET p == 65536 + (c - 55296) * 1024 + (s[i + 1] - 56320)
                IN <<240 + (p \div 262144), 128 + ((p \div 4096) % 64),
                     128 + ((p \div 64) % 64), 128 + (p % 64)>>
         [] IsLowSurrogate(c) /\ InSurrogatePair(s, i) -> <<>>

RECURSIVE Utf8Range(_, _, _)
Utf8Range(s, lo, hi) ==
    IF lo > hi THEN <<>>
    ELSE IF lo = hi THEN Utf8At(s, lo)
    ELSE LET mid == (lo + hi) \div 2
         IN Utf8Range(s, lo, mid) \o Utf8Range(s, mid + 1, hi)

Utf8(s) == Utf8Range(s, 1, Len(s))

\* The padded message: the bytes, 0x80, zeros up to 56 modulo 64, and the
\* length in bits as 8 bytes.
ShaPad(bytes) ==
    LET n == Len(bytes)
        bits == 8 * n
    IN bytes \o <<128>> \o [k \in 1..((55 - n) % 64) |-> 0]
       \o <<0, 0, 0, 0, (bits \div 16777216) % 256, (bits \div 65536) % 256,
            (bits \div 256) % 256, bits % 256>>

\* The j-th 16-word block of the padded bytes p.
ShaBlock(p, j) ==
    [i \in 1..16 |->
        LET o == 64 * (j - 1) + 4 * (i - 1)
        IN <<p[o + 1] * 256 + p[o + 2], p[o + 3] * 256 + p[o + 4]>>]

RECURSIVE ShaBlocks(_, _, _, _)
ShaBlocks(h, p, lo, hi) ==
    IF lo = hi THEN ShaCompress(h, ShaBlock(p, lo))
    ELSE LET mid == (lo + hi) \div 2
         IN CHOOSE r \in {ShaBlocks(x, p, mid + 1, hi) :
                             x \in {ShaBlocks(h, p, lo, mid)}} : TRUE

\* The digest of the text s, as the text of its 64 hexadecimal digits.
Sha256Hex(s) ==
    LET Hex(h) ==
          Hex16(h[1][1]) \o Hex16(h[1][2]) \o Hex16(h[2][1]) \o Hex16(h[2][2])
       \o Hex16(h[3][1]) \o Hex16(h[3][2]) \o Hex16(h[4][1]) \o Hex16(h[4][2])
       \o Hex16(h[5][1]) \o Hex16(h[5][2]) \o Hex16(h[6][1]) \o Hex16(h[6][2])
       \o Hex16(h[7][1]) \o Hex16(h[7][2]) \o Hex16(h[8][1]) \o Hex16(h[8][2])
    IN CHOOSE r \in {Hex(h) :
                       h \in {ShaBlocks(InitialHashValue, p, 1, Len(p) \div 64) :
                                 p \in {ShaPad(Utf8(s))}}} : TRUE

\* The code of each printable ASCII character, the character given as a text
\* of length 1.
CharCode ==
    " " :> 32 @@ "!" :> 33 @@ "\"" :> 34 @@ "#" :> 35 @@ "$" :> 36
    @@ "%" :> 37 @@ "&" :> 38 @@ "'" :> 39 @@ "(" :> 40 @@ ")" :> 41
    @@ "*" :> 42 @@ "+" :> 43 @@ "," :> 44 @@ "-" :> 45 @@ "." :> 46
    @@ "/" :> 47 @@ "0" :> 48 @@ "1" :> 49 @@ "2" :> 50 @@ "3" :> 51
    @@ "4" :> 52 @@ "5" :> 53 @@ "6" :> 54 @@ "7" :> 55 @@ "8" :> 56
    @@ "9" :> 57 @@ ":" :> 58 @@ ";" :> 59 @@ "<" :> 60 @@ "=" :> 61
    @@ ">" :> 62 @@ "?" :> 63 @@ "@" :> 64 @@ "A" :> 65 @@ "B" :> 66
    @@ "C" :> 67 @@ "D" :> 68 @@ "E" :> 69 @@ "F" :> 70 @@ "G" :> 71
    @@ "H" :> 72 @@ "I" :> 73 @@ "J" :> 74 @@ "K" :> 75 @@ "L" :> 76
    @@ "M" :> 77 @@ "N" :> 78 @@ "O" :> 79 @@ "P" :> 80 @@ "Q" :> 81
    @@ "R" :> 82 @@ "S" :> 83 @@ "T" :> 84 @@ "U" :> 85 @@ "V" :> 86
    @@ "W" :> 87 @@ "X" :> 88 @@ "Y" :> 89 @@ "Z" :> 90 @@ "[" :> 91
    @@ "\\" :> 92 @@ "]" :> 93 @@ "^" :> 94 @@ "_" :> 95 @@ "a" :> 97
    @@ "b" :> 98 @@ "c" :> 99 @@ "d" :> 100 @@ "e" :> 101 @@ "f" :> 102
    @@ "g" :> 103 @@ "h" :> 104 @@ "i" :> 105 @@ "j" :> 106 @@ "k" :> 107
    @@ "l" :> 108 @@ "m" :> 109 @@ "n" :> 110 @@ "o" :> 111 @@ "p" :> 112
    @@ "q" :> 113 @@ "r" :> 114 @@ "s" :> 115 @@ "t" :> 116 @@ "u" :> 117
    @@ "v" :> 118 @@ "w" :> 119 @@ "x" :> 120 @@ "y" :> 121 @@ "z" :> 122
    @@ "{" :> 123 @@ "|" :> 124 @@ "}" :> 125 @@ "~" :> 126

\* The character codes of a text of printable ASCII characters.
CodesOf(text) == [i \in 1..Len(text) |-> CharCode[SubSeq(text, i, i)]]

\* Texts with their digests, computed beforehand: each text is followed by its
\* Sha256Hex.  They are texts that the blocks of BlockArgs and the external
\* writes of TamperValues give rise to outside the mining loop.
KnownTexts ==
    <<
       "0001/01/2018\"Genesis Block\"0",
         "a294630ad6553550487a5ee3d6cbecfbe87b8195bb75a71dd2138ac97ee0d321",
       "0001/01/2018\"Genesis Block\"undefined",
         "b584e4c01f1225d68276ff7ea0e2d07326b3a1bb4bc98426a77b3ea195896fc2",
       "0001/01/2018{\"amount\":400}0",
         "be1e9169480ce932084ee0da275c1990696c9737c7b18564b464ffa39ab19ef5",
       "0001/01/2018{\"amount\":null}0",
         "dadc6b0061aafc1bd9befd8a9db2b59fa1fe3f30daf30b2e5c37fd9b8393b9dd",
       "000517c7e929bc3b397f3936466e6b7074e6305638c9d52812156240c0167a03101/01/2018\"Genesis Block\"286",
         "ea3b4369a404c383b2742cae24effc9214dc489d50517baead0ba088e82958c5",
       "0021/01/2018\"Genesis Block\"0",
         "70f46688c5886cc3dd2b2fcaf9cd1254d151edc6052d8febad5d21eb869247ef",
       "005\"Genesis Block\"0",
         "78df4a2783fbe4a3b160f5cbf9564f7b383c65537ddad50ef751557f6224bd9b",
       "0b584e4c01f1225d68276ff7ea0e2d07326b3a1bb4bc98426a77b3ea195896fc201/01/2018\"Genesis Block\"0",
         "66fe192d31fb0572aa3cbd3c3f61a9d80def683115c6a564968792db38f2b011",
       "10003d830053814aeb8213247d82832d674c901958dec582a443ead123570fe4112/01/2018{\"amount\":4}72",
         "7c98662143488b196eeb7734682f5a8976ec2bf95ed0ee96e98e14154aa06d33",
       "1001/01/2018\"Genesis Block\"0",
         "066e3793bea3c124b5c8ff9e4d67b122c615fca895feefd3cb5083567cde10a7",
       "100369d989859a9b74211d1b577eebdf6ca34a2c15f878f0e4b4dd78c430e40db12/01/2018{\"amount\":2}0",
         "64f0ad354abeca7ded1e5d6300f856c1cbe5f1d41bef97fba969c0bb47ad1588",
       "100369d989859a9b74211d1b577eebdf6ca34a2c15f878f0e4b4dd78c430e40db12/01/2018{\"amount\":400}0",
         "2feb3ba221846c2bda7e92784efaa5ec18cb33b8841dccbc246f844d5727f59b",
       "100369d989859a9b74211d1b577eebdf6ca34a2c15f878f0e4b4dd78c430e40db12/01/2018{\"amount\":400}28",
         "47ca1c949d203fc801f5367be6516a9658056844689a62cac4af1f1b5b7c4d28",
       "100369d989859a9b74211d1b577eebdf6ca34a2c15f878f0e4b4dd78c430e40db12/01/2018{\"amount\":4}0",
         "cdac97a5795a893b98146db0d3f97eb93d01ceed6a985867c2f6cce564cccff8",
       "100369d989859a9b74211d1b577eebdf6ca34a2c15f878f0e4b4dd78c430e40db12/01/2018{\"amount\":null}0",
         "e22cd92dcfd4e42318385d0fa16e428c31f92d09eb66a414b1e00051056847ef",
       "100369d989859a9b74211d1b577eebdf6ca34a2c15f878f0e4b4dd78c430e40db12/01/2018{\"amount\":null}28",
         "b0b7edbd49265c9893e14233cd63ed57d0883662fb0c05f54b090288ffbff73a",
       "100369d989859a9b74211d1b577eebdf6ca34a2c15f878f0e4b4dd78c430e40db1516492800{\"amount\":null}162",
         "f62baf36affc3c2e0af99cfa5df54e46cd573a184cbdf3b7acd4bedfc41bed6f",
       "100369d989859a9b74211d1b577eebdf6ca34a2c15f878f0e4b4dd78c430e40db21/01/2018{\"amount\":24}60",
         "728e8e2f31efe73fc6b822edf02db8737586752795650edbbd14cf6438164d72",
       "100369d989859a9b74211d1b577eebdf6ca34a2c15f878f0e4b4dd78c430e40db21/01/2018{\"amount\":2}0",
         "11ca49f9df0980082a97b400d171a76317d6d5c4d4dd672c8d583d03f617bb05",
       "100369d989859a9b74211d1b577eebdf6ca34a2c15f878f0e4b4dd78c430e40db21/01/2018{\"amount\":4}28",
         "9a2c3b7c192568247648fa8828f1558323b947ef68a15b9a172e8f3994052b73",
       "100369d989859a9b74211d1b577eebdf6ca34a2c15f878f0e4b4dd78c430e40db5{\"amount\":2}0",
         "d246f490913ede46b27a74d4e9ad53fded51613e28adbffa268b2df4bc26d3cc",
       "100369d989859a9b74211d1b577eebdf6ca34a2c15f878f0e4b4dd78c430e40db5{\"amount\":4}28",
         "1203b9c5b0ead4ef095f436bc5d05ce12fd9916e72c5024da8328d05bb39d342",
       "1004ccbbfe2897aa41b521b66a173bfe312a048e30ef1bd345867e7c2c49a6e5d12/01/2018{\"amount\":4}28",
         "2edb918e8f9f1a0c8992f264efa4a1e5a50a72f29dbbc1bb33c1686715eec5dd",
       "10095e3aaec198efc59f9cd3ec5902579ae84779168c8081dc5fbaf10a985b03712/01/2018{\"amount\":4}1323",
         "1713afe0b0bc269429ebd78efc94f3702a405498e4d25f3d485347ff2956f34b",
       "100b777cfeb92171f683b41f895a293c6360f66e831e2636d44e36d579e3608a012/01/2018{\"amount\":2}0",
         "531b0161e326593796a2f7d6a20ea8837127de34ec90010d0d15647564ee8633",
       "100b777cfeb92171f683b41f895a293c6360f66e831e2636d44e36d579e3608a012/01/2018{\"amount\":400}0",
         "87c5c0ff87a6a0a248e28e0ad8ae453f236359c59c880ceaf42c0fa2de534ba7",
       "100b777cfeb92171f683b41f895a293c6360f66e831e2636d44e36d579e3608a012/01/2018{\"amount\":400}473",
         "78d1c50b31804154e091cab1a996949b463d0b6f6299819e4957f972287f0d6a",
       "100b777cfeb92171f683b41f895a293c6360f66e831e2636d44e36d579e3608a012/01/2018{\"amount\":null}0",
         "7cbb216353e3218c829a82a30057dded654eb4b8c91f6c8cf7b1488e4a9a5d7b",
       "100b777cfeb92171f683b41f895a293c6360f66e831e2636d44e36d579e3608a012/01/2018{\"amount\":null}473",
         "d708d3058c4b467aa48d4da08ba9b79008560849b387564d6d9528b8dc7d1a40",
       "100f2fd460d4c9e23709b86784e9092fe21338836c65b1fc0bcea2d90f06fcf6112/01/2018{\"amount\":2}0",
         "ac7a18b6e14773308dd8396d77c53980d237a9fb462a4721d9c2a399b5b7f5bd",
       "100f2fd460d4c9e23709b86784e9092fe21338836c65b1fc0bcea2d90f06fcf6112/01/2018{\"amount\":400}0",
         "07dd64a6b0de69177dc5f90637b11cc3a29c8d7ada0aec42675e7ddef35b9825",
       "100f2fd460d4c9e23709b86784e9092fe21338836c65b1fc0bcea2d90f06fcf6112/01/2018{\"amount\":400}72",
         "b2ef736c4990d26d6f572a09332ca75903df13c4def74c420530a01c2e935ec8",
       "100f2fd460d4c9e23709b86784e9092fe21338836c65b1fc0bcea2d90f06fcf6112/01/2018{\"amount\":4}0",
         "ce8c512a4abc8fac9496a380f4585c216bd6827599342125acb843b2ec744338",
       "100f2fd460d4c9e23709b86784e9092fe21338836c65b1fc0bcea2d90f06fcf6112/01/2018{\"amount\":4}115",
         "5a340747a38c2c77ca2d89f3a31bf9abb10d8bb935f98dbbd1165527fe0c5cd5",
       "100f2fd460d4c9e23709b86784e9092fe21338836c65b1fc0bcea2d90f06fcf6112/01/2018{\"amount\":null}0",
         "7371039659c252bdb1e4651b338a5019f76f04bfe2414b8b440dd3bc8798057e",
       "100f2fd460d4c9e23709b86784e9092fe21338836c65b1fc0bcea2d90f06fcf6112/01/2018{\"amount\":null}72",
         "8a554868d484fe94da1483e072107754be92e0d9ea33f91c379636ff89cb176a",
       "100f2fd460d4c9e23709b86784e9092fe21338836c65b1fc0bcea2d90f06fcf611516492800{\"amount\":null}177",
         "facc64d08ed4d007cbf6de046e0fd74c5a645f7f8cbbd30d0d330e594216492a",
       "100f2fd460d4c9e23709b86784e9092fe21338836c65b1fc0bcea2d90f06fcf6121/01/2018{\"amount\":24}331",
         "366ff2e08ff8c2a6eaa8df780b96514774f1a3c46bd9c80b6561e654b0aa0cb0",
       "100f2fd460d4c9e23709b86784e9092fe21338836c65b1fc0bcea2d90f06fcf6121/01/2018{\"amount\":2}0",
         "c77df30a9fc2d21cadf944ac6ccf502434c08d91a316b29f4b54ec74be20709a",
       "100f2fd460d4c9e23709b86784e9092fe21338836c65b1fc0bcea2d90f06fcf6121/01/2018{\"amount\":4}72",
         "c03090cb8e3ef0bee54ae3ea5e611ac33497cc6c16ba674bd34ef46e881cd997",
       "100f2fd460d4c9e23709b86784e9092fe21338836c65b1fc0bcea2d90f06fcf615{\"amount\":2}0",
         "a3930e1fbb335034c98ee56bcb40198b4797037436578cfd92be620f4c6976c1",
       "100f2fd460d4c9e23709b86784e9092fe21338836c65b1fc0bcea2d90f06fcf615{\"amount\":4}72",
         "d613701ff7b69153a71425665b0a775e7866dc74cd4c75a5ec75b9bf3ad0b062",
       "100f33cfdd109a439d0edb684c2ab0320ae323c8a0aa3db9648380e10426d745712/01/2018{\"amount\":2}0",
         "c3f9208fdfb577c89be79f33e0b9b55df8d65143e99809586e534eea56074b84",
       "100f33cfdd109a439d0edb684c2ab0320ae323c8a0aa3db9648380e10426d745712/01/2018{\"amount\":400}0",
         "9fb8b2a85148dfdc456ef3e41bc6f53c94e60590f744472f54085e7ab8fd9441",
       "100f33cfdd109a439d0edb684c2ab0320ae323c8a0aa3db9648380e10426d745712/01/2018{\"amount\":400}1323",
         "f3f866296bf7a077c9c3eeee439db5c6a7fd9bcaf37ca0942043a9dff028f480",
       "100f33cfdd109a439d0edb684c2ab0320ae323c8a0aa3db9648380e10426d745712/01/2018{\"amount\":4}0",
         "6c7f6f8c2a3dd3ac32de67bfccb2b5e9ce5ae2185a22d55f338f3a9dce784be0",
       "100f33cfdd109a439d0edb684c2ab0320ae323c8a0aa3db9648380e10426d745712/01/2018{\"amount\":null}0",
         "fd79bbf89e028753fd728844466a368c017c252af40dfe748b180831be3b9a3f",
       "100f33cfdd109a439d0edb684c2ab0320ae323c8a0aa3db9648380e10426d745712/01/2018{\"amount\":null}1323",
         "38cb79434e7120f2d8245b75b5e4edb15952fa2821b602bee867303d1c036156",
       "100f33cfdd109a439d0edb684c2ab0320ae323c8a0aa3db9648380e10426d74571516492800{\"amount\":null}324",
         "35b7a61077ae7feb69d2b1b523df55b5a1e8af56a00e1b4f1d0b59020abe9ab1",
       "100f33cfdd109a439d0edb684c2ab0320ae323c8a0aa3db9648380e10426d745721/01/2018{\"amount\":24}324",
         "255288d74373688143092f8744318d5363769534a6525da121e2f6c5b5dd7c8e",
       "100f33cfdd109a439d0edb684c2ab0320ae323c8a0aa3db9648380e10426d745721/01/2018{\"amount\":2}0",
         "8dec88da1f55d1c37f94755f3b7e24f1b352f8dc9030d58df4562a04d8b270e9",
       "100f33cfdd109a439d0edb684c2ab0320ae323c8a0aa3db9648380e10426d745721/01/2018{\"amount\":4}1323",
         "925469da8341b8b2992f97bffcba56ffe651feff65b912f9ffb7cbb874009a83",
       "100f33cfdd109a439d0edb684c2ab0320ae323c8a0aa3db9648380e10426d74575{\"amount\":2}0",
         "5fd4d0006f9ab07e3d55dbc35a0471ead276ea0884a03053e04dc88c7de73177",
       "100f33cfdd109a439d0edb684c2ab0320ae323c8a0aa3db9648380e10426d74575{\"amount\":4}1323",
         "4df53c17f23e5c0ec284ea7e8c1f122d8c40a6d2224b2dec9c1f11f2c2ba867b",
       "1012/01/2018{\"amount\":2}0",
         "fa49e43a07445a90ab2e5ff1f1b73197e0bda188975dc4c7b72e4ac941ab72ad",
       "1012/01/2018{\"amount\":4}115",
         "b019d7a74556529383a5fd7f6c6fdc4f9ec9eaa814010396ba1319054cdc2816",
       "1012/01/2018{\"amount\":4}1323",
         "f6f2e4670177a05df2708da834d693ee36c87a4f1df49b363c327e5ef02bf12f",
       "1012/01/2018{\"amount\":4}28",
         "6fe4e1cf161710f9dc96a3918ade0e9f07178c7ed07fc764f49c417510fa2fc6",
       "1012/01/2018{\"amount\":4}72",
         "08c3e49687a5be1db52017e36c7406a448a9adfa66e66321ed722401807c8440",
       "10cce1a82f0caffe9d9e59d6314697e92eb230fc93a850cfe657a89b9ad9bf87f12/01/2018{\"amount\":2}0",
         "b8de7640216c88814f45f8fccb6e54e6970a5eb7aec6b145cc0ff2173a751a38",
       "10f1eb45fa3ace15199cd79a0a14b10a227096af8828b756a868616c0f68c27c312/01/2018{\"amount\":2}0",
         "277dffa005eef3863ab00e265733d53c32d1bb9ff2c98f85e29be9bbfbb92672",
       "10fb52fb1d73028bac4795eb63b8c9f29c6156fe6cdd89f15c228eacc2f0b6add12/01/2018{\"amount\":2}0",
         "f44c0a3f05ec1facfe2ec74c53d826347ef3ea586003ef61f4ee563e052167e7",
       "1b584e4c01f1225d68276ff7ea0e2d07326b3a1bb4bc98426a77b3ea195896fc212/01/2018{\"amount\":2}0",
         "c77ad3fada2359a86e64339ef219ac69182f9786afb4184ec5c061b51dfb8d69",
       "1b584e4c01f1225d68276ff7ea0e2d07326b3a1bb4bc98426a77b3ea195896fc212/01/2018{\"amount\":400}0",
         "a54826c5bf06b70aa9d61e70c9bcc7228cd35f1c10814f0e73d6e28bf5e38517",
       "1b584e4c01f1225d68276ff7ea0e2d07326b3a1bb4bc98426a77b3ea195896fc212/01/2018{\"amount\":400}115",
         "d1f520bc485a2d11124954d91fadf4547284b2944ed84d7f2e92097876668017",
       "1b584e4c01f1225d68276ff7ea0e2d07326b3a1bb4bc98426a77b3ea195896fc212/01/2018{\"amount\":4}0",
         "7a46d8792eaf4d43868b3643621f6b99706655d17a9d4c9383edcde12f61c361",
       "1b584e4c01f1225d68276ff7ea0e2d07326b3a1bb4bc98426a77b3ea195896fc212/01/2018{\"amount\":null}0",
         "255651cc4736a8156ce8041da01255397c1e079263bcf667bac0eb8eed1f641c",
       "1b584e4c01f1225d68276ff7ea0e2d07326b3a1bb4bc98426a77b3ea195896fc212/01/2018{\"amount\":null}115",
         "5473576e04d598b50ac40a9f19422f165d6ea6504d3ec0304491be7c740b042e",
       "1b584e4c01f1225d68276ff7ea0e2d07326b3a1bb4bc98426a77b3ea195896fc21516492800{\"amount\":null}241",
         "617f970898bde7b3d8c716282391976a7807337e12818ab53fc5c6c2cb9cb401",
       "1b584e4c01f1225d68276ff7ea0e2d07326b3a1bb4bc98426a77b3ea195896fc221/01/2018{\"amount\":24}305",
         "1f45f1ca32bd0822b1e8b68abc696dff6291940a53079679dc6ea70faeed0877",
       "1b584e4c01f1225d68276ff7ea0e2d07326b3a1bb4bc98426a77b3ea195896fc221/01/2018{\"amount\":2}0",
         "4313d76cbfb065ae3e07e2c1193470700142f643883ac9fd87b160a6fe455b62",
       "1b584e4c01f1225d68276ff7ea0e2d07326b3a1bb4bc98426a77b3ea195896fc221/01/2018{\"amount\":4}115",
         "c06dbb043a10cab45def9aed796070d0735149b2e4061aecaac9788232f57202",
       "1b584e4c01f1225d68276ff7ea0e2d07326b3a1bb4bc98426a77b3ea195896fc25{\"amount\":2}0",
         "e83a9e89ad981ede137ea284ceed3018af443b442ac6568080626986dd82fa1b",
       "1b584e4c01f1225d68276ff7ea0e2d07326b3a1bb4bc98426a77b3ea195896fc25{\"amount\":4}115",
         "8f5855941d398dc24e3d96953a61eed2f8f73ae939a466700f7bc8469f7bbada",
       "200369d989859a9b74211d1b577eebdf6ca34a2c15f878f0e4b4dd78c430e40db21/01/2018{\"amount\":24}0",
         "b5ba5195ed2dbb9b0695dd81e5de881195553da6cfe36dc861ab01b9eed2d2f6",
       "200369d989859a9b74211d1b577eebdf6ca34a2c15f878f0e4b4dd78c430e40db21/01/2018{\"amount\":400}60",
         "f7d2f4bcba909bd8f7ac1fe28ddfcce2241f27a292f27b70cf30ac164a49407c",
       "200369d989859a9b74211d1b577eebdf6ca34a2c15f878f0e4b4dd78c430e40db21/01/2018{\"amount\":null}60",
         "8b35cae9965446fa87c576789c3e040e6836cd0e005b7f179f7f2653d89b84ae",
       "200369d989859a9b74211d1b577eebdf6ca34a2c15f878f0e4b4dd78c430e40db5{\"amount\":24}60",
         "62a637d400e2b8ddd061b044a19c7b4ab0ba31e7cf90e871915049306c303c27",
       "200413344a4cedc422d3771e2ef4861591500aab806313b2d28ca498eb631b99121/01/2018{\"amount\":24}60",
         "88c20dcd0d397b973cd37b2274f26060e0e811f573cbb089f7a1f40dcc66f415",
       "2004c99398f6e2662317a0296247b4cfdd5586565d89f9b9fd16c1fbf1bd2c7c121/01/2018{\"amount\":24}331",
         "912ff42df12947997838aa29dfbdbd8e88ff559960af1514ee43e772740ec7f8",
       "200b777cfeb92171f683b41f895a293c6360f66e831e2636d44e36d579e3608a021/01/2018{\"amount\":400}332",
         "54e0e2c4b5ff05ff1b297095113d73b01e8b209b0bbef4979c12227bc2482feb",
       "200b777cfeb92171f683b41f895a293c6360f66e831e2636d44e36d579e3608a021/01/2018{\"amount\":null}332",
         "05ddb3d9b303a16646dc26a8faa8d26f2ebc53ec3cc086dbfd995b89f0a68bcb",
       "200cb3361fca3c5ae41836f9a1f0d214383d6526e00951d151db895272695ff7521/01/2018{\"amount\":24}324",
         "636f023caa132309d28ca14176f44da8558241752884c39425c010c41152e4bd",
       "200f2fd460d4c9e23709b86784e9092fe21338836c65b1fc0bcea2d90f06fcf6121/01/2018{\"amount\":24}0",
         "e938c6e038bb24018037c55ecb9bb1a224883905a43aa60f5de64e02711417ad",
       "200f2fd460d4c9e23709b86784e9092fe21338836c65b1fc0bcea2d90f06fcf6121/01/2018{\"amount\":400}331",
         "dda59346812452824b718bbaeb76c113f5bd38138f2d8a8f7efdd052e0f85664",
       "200f2fd460d4c9e23709b86784e9092fe21338836c65b1fc0bcea2d90f06fcf6121/01/2018{\"amount\":null}331",
         "e7b6521ae68f1d801b763c32aa2d62492fbbfe97528d7dc4ee888a21805edf23",
       "200f2fd460d4c9e23709b86784e9092fe21338836c65b1fc0bcea2d90f06fcf615{\"amount\":24}331",
         "7651fb30b7ad2125669849cd135e50f5bc1966065bd3a9161e55b7b122cb5732",
       "200f33cfdd109a439d0edb684c2ab0320ae323c8a0aa3db9648380e10426d745721/01/2018{\"amount\":24}0",
         "85025d4939e3abd4d81d2268430fc2cfbbe6e290ebce44d392078c672e0e94e9",
       "200f33cfdd109a439d0edb684c2ab0320ae323c8a0aa3db9648380e10426d745721/01/2018{\"amount\":400}324",
         "b5984a4bfbf451c93acb84fed86beb31482087513ebda8793375bf09808eaaf2",
       "200f33cfdd109a439d0edb684c2ab0320ae323c8a0aa3db9648380e10426d745721/01/2018{\"amount\":null}324",
         "1fccfb255399f929e1f0a398d9285c1e45c3bb32a269bf455895f7fe97fcafe5",
       "200f33cfdd109a439d0edb684c2ab0320ae323c8a0aa3db9648380e10426d74575{\"amount\":24}324",
         "49636f733dc1dceb0d28df7583698036c249ae7d2ebea99c16a6f21b3fe65330",
       "2021/01/2018{\"amount\":24}305",
         "68b8f4452757e83c5d7516fc39ea52b7fc060d73c3487a7a2e0364744aae5a06",
       "2021/01/2018{\"amount\":24}324",
         "4a76da39ecb2ac378c86e9653020eb92ee8503719d3870b2777f53f44f1400af",
       "2021/01/2018{\"amount\":24}331",
         "23558aecb4136a369b597441b9f47ab7afc4ab4a25b5140c0f45b412c3e7f89b",
       "2021/01/2018{\"amount\":24}60",
         "55ffd3c685828b58a865ee90aad777606ea59d879ce6002b685299b8f09f171b",
       "2b584e4c01f1225d68276ff7ea0e2d07326b3a1bb4bc98426a77b3ea195896fc221/01/2018{\"amount\":24}0",
         "5d1c63f3e2f0d8683eef517bada139b70e45698723fc4e8b9e0d4415e0ac8ac0",
       "2b584e4c01f1225d68276ff7ea0e2d07326b3a1bb4bc98426a77b3ea195896fc221/01/2018{\"amount\":400}305",
         "1570950cb7fb753c11bfece71e30e7fe0a5817a7dda3d6b6f5b5e72ddbe6deeb",
       "2b584e4c01f1225d68276ff7ea0e2d07326b3a1bb4bc98426a77b3ea195896fc221/01/2018{\"amount\":null}305",
         "284f1f0657b4831303261f2cbf74d7f0d1d61008f7314dc091dd8907f93897f3",
       "2b584e4c01f1225d68276ff7ea0e2d07326b3a1bb4bc98426a77b3ea195896fc25{\"amount\":24}305",
         "5fcec57f080556f57ccae91bd4f11e69befc5de4cfd0510816ee532111c8d481",
       "3001/01/2018\"Genesis Block\"0",
         "fd009b2ebc149d719196dca6c0209dd059cd9437bf9fbf946b96070086ea3d18",
       "300369d989859a9b74211d1b577eebdf6ca34a2c15f878f0e4b4dd78c430e40db12/01/2018{\"amount\":2}0",
         "ef97e5f1cc06ca919c18fa6c55577362ecc07935c4a9f75d8ece8d02c3c588cd",
       "300369d989859a9b74211d1b577eebdf6ca34a2c15f878f0e4b4dd78c430e40db12/01/2018{\"amount\":4}28",
         "cfde603247a7f328cc495f604b8a875329d7d15778d36fe25dbef1bb0eb16ef5",
       "300369d989859a9b74211d1b577eebdf6ca34a2c15f878f0e4b4dd78c430e40db1516492800{\"amount\":400}162",
         "beb898342ee43a8c74b8d51817082cc08a7b055fbfb569a2f9b7c49812968395",
       "300369d989859a9b74211d1b577eebdf6ca34a2c15f878f0e4b4dd78c430e40db1516492800{\"amount\":null}0",
         "193cd3add99a06c0a8f76915b0267ec7f70eb9969798343c75f1fbb3749459c6",
       "300369d989859a9b74211d1b577eebdf6ca34a2c15f878f0e4b4dd78c430e40db1516492800{\"amount\":null}241",
         "861a7c72fef6045109283f0ca12e09a64bbc0addcd6f2ffbcb378e92a6b18cf4",
       "300369d989859a9b74211d1b577eebdf6ca34a2c15f878f0e4b4dd78c430e40db21/01/2018{\"amount\":24}60",
         "d33c8fa7c09f1df4a71473795a43e0bedee09bf875109582f3d5d08c6d8c2463",
       "300369d989859a9b74211d1b577eebdf6ca34a2c15f878f0e4b4dd78c430e40db21/01/2018{\"amount\":null}162",
         "a2cbe6849810e47daa67c238640af76aa724ca7c48c2b3366eb0c31052cae1ea",
       "300369d989859a9b74211d1b577eebdf6ca34a2c15f878f0e4b4dd78c430e40db5{\"amount\":null}162",
         "cf7d103a5d88ca4476dd8e18bb87e89d401817d1f58b0aa6020fcbf2adc9befb",
       "30093150daf0801f5e8fe34361b0e7a08d539439fee63e9b9cdeaa08105ca060a1516492800{\"amount\":null}162",
         "eef757f3e7e57c6b6113e0b84a7a0e0c7b6c480c247c529040a1abba54b274bb",
       "300b777cfeb92171f683b41f895a293c6360f66e831e2636d44e36d579e3608a01516492800{\"amount\":400}12",
         "c7ed558f7edd70bb571ac37c0544ce115b7cfd4e6ebb97d131cb6475ce7ca2cb",
       "300c98aa13f067ded73d3b99ed7910c138ea1378732081961aa89fd32995af5b41516492800{\"amount\":null}324",
         "6c5ec9f63c7621fd7efc105121c491933ced3a81711475204868f25045f0af26",
       "300ed3ff45599911633650f08def8c04bc3026260dfa32deef3df366215ef4bd11516492800{\"amount\":null}177",
         "881049d82982f636ae0590ea1f0524cca3f914e621ec847735b136ace5ba0d7e",
       "300f2fd460d4c9e23709b86784e9092fe21338836c65b1fc0bcea2d90f06fcf6112/01/2018{\"amount\":2}0",
         "d31256387b065661aefdc6760c2e619c408d2b82e7c439c04d0dcc7b510b0d8b",
       "300f2fd460d4c9e23709b86784e9092fe21338836c65b1fc0bcea2d90f06fcf6112/01/2018{\"amount\":4}72",
         "b78e256fe9764fb3bcd4ae262cfc4df50939ce22db47fd4cd8148ff835f74468",
       "300f2fd460d4c9e23709b86784e9092fe21338836c65b1fc0bcea2d90f06fcf611516492800{\"amount\":400}177",
         "d0846fd59cbd7eae322db3b987b6a486855565938b6ce525c0c4c84c52be7e63",
       "300f2fd460d4c9e23709b86784e9092fe21338836c65b1fc0bcea2d90f06fcf611516492800{\"amount\":null}0",
         "f89fece76c297cde89aab6eee9aa0146e947f4c9d4abd901f812be401b3fe3b8",
       "300f2fd460d4c9e23709b86784e9092fe21338836c65b1fc0bcea2d90f06fcf6121/01/2018{\"amount\":24}331",
         "d2bede562afda7c4a8b3ebe515176bc398c10ece271ec1475485b1cbecc4bb25",
       "300f2fd460d4c9e23709b86784e9092fe21338836c65b1fc0bcea2d90f06fcf6121/01/2018{\"amount\":null}177",
         "6a5e95efdd2524ead49ace0ed212d13dfc99ed66e5a2a937a2e92401383770c8",
       "300f2fd460d4c9e23709b86784e9092fe21338836c65b1fc0bcea2d90f06fcf615{\"amount\":null}177",
         "0cd9d86cce96b2e5d0282140c607b2daf739ba4ae84be06b0995f6fcb4df50d4",
       "300f33cfdd109a439d0edb684c2ab0320ae323c8a0aa3db9648380e10426d745712/01/2018{\"amount\":2}0",
         "bee6d9a8c84ac817adbbd5d0185f7bf677bcc825a5a2738b7dcacd2edd400e11",
       "300f33cfdd109a439d0edb684c2ab0320ae323c8a0aa3db9648380e10426d745712/01/2018{\"amount\":4}1323",
         "693f1eb59150b2d310f15c34c922b5ed10f749a4aa88bfdc310ecfa9fd6dbb53",
       "300f33cfdd109a439d0edb684c2ab0320ae323c8a0aa3db9648380e10426d74571516492800{\"amount\":400}324",
         "9dd5a314819af3dee9efe467da4af9337fe5ffc75d515dd497c81f4e6b8b3ba0",
       "300f33cfdd109a439d0edb684c2ab0320ae323c8a0aa3db9648380e10426d74571516492800{\"amount\":null}0",
         "0d2307056215ae297794754bea9ef48e9e5a5ce29b40f1fcedb00bce1b1bb186",
       "300f33cfdd109a439d0edb684c2ab0320ae323c8a0aa3db9648380e10426d745721/01/2018{\"amount\":24}324",
         "92fa190cac112891f839287d0a5690ccd5a15dd70e52caa4bf20395797f48c2f",
       "300f33cfdd109a439d0edb684c2ab0320ae323c8a0aa3db9648380e10426d745721/01/2018{\"amount\":null}324",
         "b2b422eb3d0e49123abd62916208ea04912141e6fd19122688f5609735acc06a",
       "300f33cfdd109a439d0edb684c2ab0320ae323c8a0aa3db9648380e10426d74575{\"amount\":null}324",
         "696d013de5c4838fad4f86b298ea0b467d34d71d4ff4c6b717324874b1e5ed72",
       "301516492800{\"amount\":null}0",
         "18d89a6d3d62b7f59992cdf6f5cf5f0efdaaf03bc1524c684c9a2e0356ff4771",
       "301516492800{\"amount\":null}162",
         "18d5f804a3b02d1e40b1094430c8d96ba475f770789a48867b670f6881bb4f43",
       "301516492800{\"amount\":null}177",
         "e722b5130cf4dd6ba451cb01fc0916fba4d0fb0dd7cdbb0b36ee3e6856b07e20",
       "301516492800{\"amount\":null}241",
         "7533dc5045ac93bb7adb72a3a8d51bbb5b050d0e24add04d24e7351e2941c7d5",
       "301516492800{\"amount\":null}324",
         "f6d9df5f86f5b63bab760762976e09207a59e1cf1d815fd5081e70a83268d6d4",
       "301516492800{\"amount\":null}undefined",
         "a19bdeca4cab06abb0c8f151c005ad48c1c4eb057b1991a6556fe0727985a8a5",
       "3b584e4c01f1225d68276ff7ea0e2d07326b3a1bb4bc98426a77b3ea195896fc212/01/2018{\"amount\":2}0",
         "9bab97c6031a54dd337788664c58059c0a49102e5e64faba5c4c45bd2dbbfce9",
       "3b584e4c01f1225d68276ff7ea0e2d07326b3a1bb4bc98426a77b3ea195896fc212/01/2018{\"amount\":4}115",
         "98b50b8a2c72cd0068148e477dc886eb831bd41a94980482960d6b58dbbf8d4e",
       "3b584e4c01f1225d68276ff7ea0e2d07326b3a1bb4bc98426a77b3ea195896fc21516492800{\"amount\":400}241",
         "0a399caaa05db1e0aecf0b9ea884710dd910cefcbbccb357b517b82bdc05e1c4",
       "3b584e4c01f1225d68276ff7ea0e2d07326b3a1bb4bc98426a77b3ea195896fc21516492800{\"amount\":null}0",
         "df3650b2467fc3bf678e2ae5d3bf819d836ff4208690a547ebcc042e5215ca5a",
       "3b584e4c01f1225d68276ff7ea0e2d07326b3a1bb4bc98426a77b3ea195896fc221/01/2018{\"amount\":24}305",
         "9fb921d3b8650e2f69e73734d1ed7a5cdb9a7042ea4153fbf4d40c585f14854f",
       "3b584e4c01f1225d68276ff7ea0e2d07326b3a1bb4bc98426a77b3ea195896fc221/01/2018{\"amount\":null}241",
         "287615af3f2610e03c76fae699d7703a00dda08a8019e3d46d451024de1cc3fd",
       "3b584e4c01f1225d68276ff7ea0e2d07326b3a1bb4bc98426a77b3ea195896fc25{\"amount\":null}241",
         "c30f5248c548b8be02277f31453eca038e30c55cd354f6d1932489160611a69c",
       "NaN01/01/2018\"Genesis Block\"0",
         "b46b218360b4d3e15f84f70a7ee71727af179b1cb217a2b9eb63543ab1512448",
       "NaN12/01/2018{\"amount\":2}0",
         "2830a8864e51a87d3eb1710cf20ead8986ec32ed84b889c2cdd919158c15585c",
       "NaN12/01/2018{\"amount\":2}undefined",
         "00b777cfeb92171f683b41f895a293c6360f66e831e2636d44e36d579e3608a0",
       "NaN12/01/2018{\"amount\":4}0",
         "8b2926cd00f706a4699a1e7c94913a94d38a449cbc60fafab96c7cbd9a88ea48",
       "NaN12/01/2018{\"amount\":4}115",
         "7837e240dcddc30021af61133c1abd4353847aca21e6be405f2942bb5cc2f046",
       "NaN12/01/2018{\"amount\":4}1323",
         "a2ea321c53a39390c30a92d1c35073c59f212812f54ce28f19232da98309f5fd",
       "NaN12/01/2018{\"amount\":4}72",
         "659dd1cf49adfac411f73c75dea276c6f78d5ee74471493678ad6bc56f238213",
       "NaN12/01/2018{\"amount\":4}undefined",
         "989ed68d04f7088ccd2fe02fb448f91b178804728dad52901cc75d93fc9f90f9",
       "NaN21/01/2018{\"amount\":24}0",
         "c76a302db002bb5c4bbcdd1b496c29d29bc6512e822110b958f755bac6f44e58",
       "NaN21/01/2018{\"amount\":24}305",
         "2a8015367ad8cf48fb20f1523dff8dc2cbf65a73ad1194ceaf955313bd4af51d",
       "NaN21/01/2018{\"amount\":24}324",
         "6ea4634941ef3e7ea53dea5190c3b05409281bbea8f2d117de6ed44e049e7fda",
       "NaN21/01/2018{\"amount\":24}331",
         "6dc0f93b636d270aca35d04c82717e9b5e655b61a15e037df58a66744e3f017c",
       "NaN21/01/2018{\"amount\":24}undefined",
         "8dd7393e57b0c94716a0329c85da3d6d5fca6c9e5067b7bd1c018540814a9b72",
       "NaN{\"amount\":null}162",
         "8fe51374f34ef174717cb2590fab36ebbed2a01f41d6bf96547ab48e2353b9fa",
       "NaN{\"amount\":null}177",
         "a2341a0e090c87852102f5d785eb01d3776da173662c3b4d3fd57581368ef6d7",
       "NaN{\"amount\":null}241",
         "da9d1664a31019e1e74cc03581471d21c2137aafb00df290446c32ba84e7a599",
       "NaN{\"amount\":null}324",
         "cdacc81fcf8a448e4a659fa71db85d4b442c46c2147b1ab8ad5ae448b4623c08"
    >>

\* The texts of mining runs with their digests, computed beforehand: a text
\* without the nonce that ends it, the first nonce of the run, and the
\* Sha256Hex of the text followed by that nonce, by the next nonce, and so on
\* up to the last nonce the run reaches.
MinedTexts ==
    <<
       "000369d989859a9b74211d1b577eebdf6ca34a2c15f878f0e4b4dd78c430e40db01/01/2018\"Genesis Block\"",
       1,
       <<
          "ea9f1543f72fad36721d6fea9f5f63c270989fd5771059ad66793eff5ff5ffdd",
          "cdf9f80f8d0b0e0e14d4f461e7250e96f36208f0c8a706e452d3c74db5a37429",
          "1ed386b02fd03342e4ec0d6393df4d959fb464b65cbd5d390607575082e074e5",
          "f87b7036197ddb28a21b18810be74d15e834560e5426c4dd2b48c642f29f909e",
          "d832e24ef78f02d6d98d0555657a3d43477120006090c0f717710d8f4ae0735a",
          "c1ecef083b8901471a7284f3ff7d824402421590241657a73000d6a361d590dc",
          "36be4bb625aef40ae75da29f08e336dfa2d166c2014b977b6809cf49bc5070fe",
          "6316df482429a61e2ecf6872edc50b4cc1ef7919ce74a2d9d11da7618b26e1a1",
          "cf97396bc004bf486f1b7ba7e3e19b8fe4e6184e4b3fa1dfc9b17b1f00a55ac2",
          "ef9432590801d041fb1df216aa65bdc30084086a78fe4b5146a49749a9ca2af3",
          "4ffb9c2b3922e13f4cd7eba37fc268ef334f3eb45f25abb2c9b3e61fbafe198d",
          "10597584a0e1a0c77dbc290b4234f37a05b44446f4483879e5834478da10e151",
          "ea56312c3e290e7d1a80f0ff44cb70971bb2340cf879b63feeb3bd740baf0ad7",
          "ae30eacc7238d78d2536d24a4eb66e6f587bde392b939ff2c65b4345392916f6",
          "23753746b5f0758e2e9176394b5d30f9775de81204d6be3c166e29eb1d9fbc96",
          "47834102fc6f0dc7a4eabea905aaacf6d38f3ca3de4d11ae5857ea1cc18a1136",
          "310e65165445f82d28a7ec2556717de0151806b4ceb4dc126ae72f1babe8b45f",
          "1ebdf72026b1988e335f8a4f22285e6c2f5edc5b2ccba82c28742a38c8158322",
          "3682d65bcf749bf21bd1cc01f228e3a5fa7aaef54655ef4b8c5ba10c989a7603",
          "a5a7b5d8fad0a3a6d804911a40220d049a34eca3c2b88143328b65a70154a73c",
          "72a801df39585a7af37ba84143e34e26d49a74e061886eebb80c669917965dfb",
          "fc5022f3bff7f289f3d7d8682a154d35c04c4fb23c4c8eebeec7c30c6c46c0d0",
          "780166f15330637441d0d22cf19f4d105f62e48a8b833ccd788b2ecc551bfed8",
          "a0b66acc04340864e1c17a807c31735c331b2e8fd1c37b077b335af0dd667086",
          "8d521c854f36603b86bbc4cbfa4f0aa8c0377dd7ed6dd2b1c073267a274a1562",
          "b90ac4a326193880eabc75dbe1595b2c89777621be3536fdfd4f13903601191f",
          "9c609448f750cd3a4a871881475a766722bc845b1835750cebc8f82d911bc2d1",
          "51f6758006867dbd893ec1dda111e104fa5f9a9f1852163524d14b1ba96c582f",
          "dd225a2647720c50323f845eff90df8bdc836aa564aeb14ae6e290a47610b689",
          "af81debbc18a435045ebfd281354c2ba1633b4600d7030bfa3acc8329d1c8b68",
          "00d3d3ae0a10f441f4451b2fb551510ce16c28e602f7020afec0047e0d290425"
       >>,
       "000b777cfeb92171f683b41f895a293c6360f66e831e2636d44e36d579e3608a001/01/2018\"Genesis Block\"",
       1,
       <<
          "a954f4435b7e7302477233d844c93908fa663e18c385e80adc676939dcc1053f",
          "bb10dca9e0d8cd38a30a145676ab1784a7a4b5707614fd1fa4f28b37c483bdfa",
          "d46273f87386e2f88b4f5470e3a680ed47638afbe982899fd54ab8f9f56783e9",
          "f6097c5a939dadb189d804200e742656e4503c83eca710d26d4917737233879d",
          "bcff8a80e26b13bc5c165b127d379b4b453abe47b0bd9e6941e8ae76dfd69f2b",
          "52b6edd1bc1739a1dea554f9b78ff8840f1635ce6ad1aad8b786272b7dbd0f1c",
          "1d0c7d7b15940bb89517272d2402e9f07604a08bc5ed78f5868ebfcb9a5acb76",
          "77843c1c96aebad1260f21d2904304bf6e7b9c5fa4119f036d7e3e02fab1e3ea",
          "db4b4ef7a810cc6c998b29aba37f42e06be0b2ddecf16d68f1f27c8ddf26391e",
          "bb612e341bb09aed2ac7c3940fd57ba07dfc6d2b932c59978a52d0371440a624",
          "1909fd650fb3ad7f089a2944957e5c629bd9f408f83d2e6ad3136821ce55d0b6",
          "5627bd3b291c11a8a17922f98cd6226c0dd2cfa94752f34facdda4eef9fab6b3",
          "42ae6f304887fd0fe9e11247e348ed70542f38f810466702d7ecdce09b14504e",
          "ffe35b3e97847f4bc4cd33e7dd1592e32d5c7df22e318dd4ee703e6979ed945c",
          "4577da6db678d8fc24de1c5f8a53f5e68bbaf9dc10a05fe7b7bf3b3a63fa689a",
          "ad6c6951b4be624a0225ac61157119d379ff64e8214da4e51066bad16c6e360d",
          "23c5d440b39150fbd3b528202abe8f0804dea2e418b01085d627c0e23f0df011",
          "1bd8bb4bb81863153c17293c3c6417c9473ade9db164cf6fd1a89645d1c73fd0",
          "5fd6cbe81908f9fd6a024ee94a35ddcea7818fca053db796f75a5dcbeed18fe5",
          "5b0d9bfa6bd832f57a2c3ad6197d43afe1ad10ff7aca56d59194f3223bbd1ed7",
          "cc67133e9d3f6e0b836685bff137c195e594455d6febac5e4933db3b0a159118",
          "bfda58049cff74cd770bf34270958cebf0af158700d5da96a35f35ca05f4d59c",
          "c0bb447af450ab74e50e2d9a2f518ce8ae92cc18c046c8ebfc7423e88b707f18",
          "6215abaf3090d748addd6d95133f397536acc2bd4ad33a9d6f0b35273321fd38",
          "02206f832b72d1286b10df0f027c2038e800a5fc62be674a449b56237747cafa",
          "ff76bc2260a46bf1f3268e4e4bdb3ac0c70867acae1b602ab5925595592baa94",
          "8855c2cc52522f76efa943e1aef5ce84e1e90763005a84c944a4c85577cae398",
          "fb03828d5f335417c96cc52134f10c2a8e6ea21deb5226365d23f270b65f6751",
          "4497a320580a726748e9c87cf570eb56381dc8b838c13274d1b8c3cef9386378",
          "67389859d2b780088a1683cb47af82e88d80aa87435119c92c81a662edec4159",
          "56717a0af7669ded17ec550c8c9327453a7021d710f58172a00a7082f9b21ca9",
          "7957801b9383b95066c2f1abd665032398fb2b06bf22c9c94588c8cc08854f1d",
          "742f3edbdf1ae42b5161707489ed4b99f3820f3e1ce94b37a4f1d29d36afc1d8",
          "f581a7846a81f6239bb301c97a6ea70798c8fa583e7e9c1dd593a989f489e821",
          "9d516233670356ed9d3fcd3f9f46609f0c6525bd4baff4fbe46e15f7bb6cc345",
          "0d0690c09dd955ed386a4f836f4416dfa02f332a3068339204f6101669702efc",
          "0fd52c232865148da5b0556083d68a3ad5030739eb328d1ed3021577263216c6",
          "fca6faf1ceb560a131dec3e5b4e6788808c965fa587d8bfdc558f7b7ae8f23de",
          "7c915b78cddd63431d976206471e48c5b479ceba5c9c1cf16d2ec385c5eeba8c",
          "5d4d132b532323eaf70d576df9366d138bfb8b4cd471a34d668a902b8be0e056",
          "5d20ef6c348e3529884a761c091e5f60fc5297f37341434528f27b6657e03bc4",
          "ed71e74644b9ebe6d459f14aecaddce087dd364a6abd8662fa56db276df9c899",
          "1de00bfb351a4b52f3be0a161fa81c724e1f78acdd69d0b450437c0dc36f566a",
          "716e8e176969849fb364be346204f82170dae6a7006d9cec935312393b81a042",
          "ad1e8f460621ee8fe68bb759a2cbe4092a286786789962e135185b56f4b72df3",
          "e7dd2461641442bfcd00a8d297b26f3cad408e86e16e5442054a98207755f944",
          "75816f0416ae758f21c6307d60ffe5d0661ba2e19ccb329aaa5e8f0c701a34a9",
          "0486d5d90364db855d9d341ff3105ec4da92427a9f0df35143aaa49dece16d0a",
          "d0564c62c0d5a79019d220054fda3d8a45740d033481bec45141108c4521753a",
          "028b4fdbf830b132e963f3235ceef0322484054d52fae1e21f18bd69c7ec4101",
          "b78dfc2a69c33f7b2cafaf46bc5befeb424abce7099153d2cbed3485bdaa5363",
          "c0ea609f87a249238f2fea9e832c36e87f5dd045bce5323a4620ff2427e93385",
          "117937a5eab95240f09fbec35dc366cdb071db3c678b892e260c87863be389b5",
          "aafefc35a833223ee0889844230d312e282461d6f13e19417b95c8dbbde82b61",
          "1d96b465b0bb28458c662f6d5b30dae5fdf1ded648ad1b2b1e5fa00425a6fdf8",
          "dc288a7f35ca8ef769f6da21585db3db012e3bacaa091d501e3a7bee5a92695f",
          "5e09328d953fb991daaa779db2a6d672326ef20fdff8f49cc48a561d3808f9ca",
          "3ec972bf1443d533fb53df409c639a713cac9d93257ec4cc19838f2a36e8b0a9",
          "fb605cd38bc4174fcd9720aaa6ef6a763b246c4857333d87f98809823bd009d4",
          "c6e2d01e07181909bbb5d927f02fa3dbe95cb6a48b2a8fa397096138e6434b26",
          "42c914c870663e8e450603c38190013baf34cd75d3ea2c3219920765567968e8",
          "edacc493eec248a83abbe628a933f9f68d3af332f964e8e6fc5981d01749c4e0",
          "e8f25e57c9f84f663ed3251e76addcf3cad936738fae41eafd621aa7ce7fcb03",
          "56caf10089e3cbd070d4f2a68ddaa1e91370842385cbb0871fdafe1bf95d7430",
          "a65ea62ec9c8768e6dd266d45dd560decf32dba30dfb08273cab4eb1c512ae32",
          "e0439d7be0fc63f4a6cbcff60ce0ec83342abc5699ada854299ce8bd8f0e4a0b",
          "f97d0cf52c8adef77bf428e625314d277aac5b574baa7c55df9e773f62f10c67",
          "6ff43317b235fa6e2ecd651fe0043844d5884e7892d87de1fcaf2e81f524757d",
          "7055f3b39976f50c93306e1e1125d1d30f0691ca6f0936056f9f81617defe030",
          "f8b6e8d5b1b08693cbfb1e630b566da1a37e35add0d94901c5a8ff45ce7b964a",
          "0f4a547eb8ed341fc219f18ca18f771c12517b579ab6ee07494280c4a0e76319",
          "43a42d127de34b0edbcbbe81afb077f5992b0253ee242aab0bf4a02b9989abce",
          "9844e08154c5fdd9ac7f4ba13180320b69483f2c992d90a4ac166fe3ab105bbc",
          "ea9bffc2c0ae7d327b0f86dfc1ed5d93b7b5cddbc457068166ba4e5d6e68a995",
          "4ccb66a7c63847a39c93f3d3e9321abdf9623cc90a0390f8d730e5ad09365b99",
          "b8a356b7a7c285f988e44ff46c677fb8e4d7784c06192425712bad40fafe093f",
          "546693bf13cb780520c0aa44e53096b2260d01271f52a8f84db11cf48fa689bb",
          "86aead80d365fa520d032d3bbc5035ccd27b2be668226da822cd0730e2ba4077",
          "9e2cf62c7af6c35febb69a202b659688b3dbbababd7c228fb33dc101771248e5",
          "817d6449c3d77032e470cf01b892e7f8c0abbe48f47df8058de08b6217a8fae0",
          "e8c257bd5b56eae439327f45a513abc891e67678ee5503e8e6aaa164ad3a70d6",
          "217c1d7282a3be303fe0598d4cc38153e75036bf728972fe3f435688626de4f6",
          "71bab99a035b17efaf81b7ebe12f2a9f563bce2dc231f8f442bdba7b331e6f73",
          "9748c401d579568cf8db87d67038f782c542e94ebd637b8c118011c1fda9c1ed",
          "5f75d2ba269e43e053e8d7de012172b747981076fcf9fa69379824078679412e",
          "f4c8693b527135fdd0b4ade4757bdac4d4b37ffe53335c8be8da510523037dfd",
          "b91388adfcfe0aa0263724f6322c489e7afd5ff3f6c53ff1591245d1b78fab17",
          "be4e4c4c5837a898ff70d70d866f32aeb557a68c31224071ad052ecb96cc6866",
          "3e260637f65a0db16790ac798e4b9d54243c1674bfcc48c1f395e8c54f846f9b",
          "e122f404cdbc35da0ba687e22894248889d6c53e459aea61feb4377aca8796bc",
          "8dca5aaf148d2464b5fa990cd7b3f327948970ee815f4e289469bc2b9cdce6c1",
          "735c64ff38025528ab5d713dcf6a402947f99d22efc6f1a0571c5d1e18737b29",
          "ebcf261d02ee2d5dc1d60c5426b7928e7e877bbf944fb9e76ea754f97be3905f",
          "5f1cdf953aea38bd22079802563bb61a43b3d2c9aab76e2bcb34305474bee242",
          "7a5b142ea2dd4327284245695ea5e3237df18f5958ce250efe9790ca2c26fe86",
          "5e589aaff357ab7a6e8f769836a269fa299af5ecf10198758c5546ddeb2112ef",
          "f7fa230a3f8b85f7b191d28956f0780c6ccd9c05cbe10e0bd7788b1665b67f15",
          "dc4c8127a9283b9037fe9323294971933a9027a6f7c8bae85499d0e28c1d8bf5",
          "203280292a284bfa9a2ba11da94c59e59b20ae6de25d053d36bda51e447e1171",
          "e3e2ee854d4ec0ea54405e5a3e76468597a55f214c2c1b38285376d0576262ae",
          "8753dc2369ed50c6d4e3a771c9c3d2fea2c52c0c1752db4c3defe8af411f75d4",
          "268633a4a1795975100664e08dba0020f3b1d555bc5ffe1718e088e092ff89d1",
          "af732fd86ed81737851462d3b0df2c480aaafa0db140b98273ff2619b95c15b2",
          "ad698a7d78eea11d560ecd50a9ba77298a2f27aee11fbd52f1b400846a548782",
          "da5a199e53fc1614f589f094b84194f69069a8da3d28b5cb4d44cdb83d936ba3",
          "3e2f902726ba1410abade5b2b4038f4345e21963c4a3d4d968a8fc2642c48411",
          "5a4054036f89c256a86eea7d47597f962755c821390e05476dd4f5f31b779dc6",
          "3c7181483e73f1fdb2bc5b7870682b4c1b3d74b1605aadc9f9968aee7bdda60f",
          "24772baf4d3082691cf8f068c1fcab38763149439b1318fcb12c9b096dadd47d",
          "39c42c2fde3a20a1514145cd045b144c8e0acd5f0a23d50305b1e1cbd8c97b9b",
          "6d4fcd4cb872809a6162c021ff2e6ae8a57aba8d64100bfcd0acab1b68f7bb4b",
          "3d136f14386aba3be4f91a2ada9203d9f9fbcbfa54b5dd053ba79236b10675e7",
          "ab82e3555d3cbcc499a1eb9c3b13ec7a3c585efc7564d06a9ad733f2d606deed",
          "2f9b51b9225193f9cf197ea80081c0d66b0ee4b20a1174e22b4bd249f8c7f30f",
          "51d1923b947c99518e94b546702b0293f8147ba0de28e30c385ee1676d971a1b",
          "a9b155f5e526d86d3c3a710f49dd466485b6558ca58df5acdff28ae8224075a5",
          "0104baad1bec790db57eb068d436d1145db3bc842db0545ea53bb78605ff51fc",
          "6337c827a460140ca7c2dc4802f27bd28770f5bce8db9092fa4a9491006051cc",
          "f9ca3e0292ef27b254cfe22a0495e862f9695c960d90cc5da06ba05662aed5a3",
          "5deec2ae11a89c12c69362836e5447d486846bbe64ff9f3d00c0ba2b72822934",
          "1f05258cf833f3cc53e9b412aaee934b6c7b18ed71c85e3e03a453c75630d78f",
          "4e2adcce8f6917f3da5ff0188995d30bc97082f3828c43dc066d9e6948ac9324",
          "f96641a53ebaac5568e163bf1b07d0e2dfec4561e0ad74dfb3576ea215e96418",
          "ff2ac62c1d1a8635bcc8a13355f28cf190903774f7172428fdd3f59a6d39ba82",
          "16ef13238203efe1453c857f43465c0d1b0bb6e7531f9e752e3353686007c118",
          "d02e64ea874b5a89ecea6677bf6a35eb6105b07b8075dd07a5aab3f31edb8770",
          "c2c1d830e953bf1e8cba940492b71f10f781a638e72e53256736b0751346cecc",
          "062a967ee0b9b928e93b36501f3ad2907440f338037bb217f3662047f6f070bc",
          "4f536d85baeab63a9b86c11d45a33fd2e84c1083085329ea7960b7c71217e469",
          "0861caaa7c505b734d9ee87b685daf4ef75a54c5c238d0e933c3ae58c8ee9aef",
          "373a5985d804358ae908f18282b7991b86df0b63fc9b91b8d581c93d601f67c9",
          "02c7e14080177cf2ee0b62c7c14315d995ca0415209d8cfaf47d7be447788a76",
          "fefaadb4674e30439df383c24de52be906499332a6b67160d63f264badaf1ea3",
          "5d4ba209b247a255802a7430e70dec3259beb30e003bac3d040ebf3a2ad34a65",
          "acb1e2a66c332f52b622ec58901ec0c9806757f9ce36b03599ea6307568decaa",
          "b1565976ee92f234a4d3c53ee7d8ac1431b554eb3d99217b6d0f02021b9356a0",
          "5522ec27de8d010dbf1df9a2026a457514c3ca1bae1eee4e390ce2331ff50ef5",
          "7db496ee5d0f80a62890cd2194de1b50a3bef8400038b6d06c4f260c36d0c54c",
          "d3243f4649d612a19071a80b852f811c1d127103a10fcb71744ea76b0130c5d7",
          "2dba4e27d59673d060cc013a352dea70b76bb63faa323496d6dfcb7178c8e50d",
          "7b7b09c6ffd10b3a0f1ecf527dc1953c9955b57a87d59afc63df74bb84b70407",
          "4eb80782b86f228a9c3fa19ec03204d305c6d6929300ef1113a8344d06ea7159",
          "ea0300e0c1e6b68d12db37a6f990741a58245979eb0b0f637a0cfefd028673ba",
          "b3e36c9eb975bed06acb08cdb65f67acdee57d82af9b6137d6d0c8d2238df3e7",
          "bc293c635fcf9205c823823b4976f558c2bd93dde265f26af9f6bb2486902a4d",
          "f5c085a7aa31d3eaa318c01b875d57105d3da864a1025f99cedcfa6e9b1bb243",
          "f3a1549ccccd56229b95e70e552d4832aeef98eed315fcfa255a00818aaf0c37",
          "0037a5c17b6c7f3ef78e87b818e1cebe65ff3a794a29b1a7fda99f74b94542d2"
       >>,
       "000f2fd460d4c9e23709b86784e9092fe21338836c65b1fc0bcea2d90f06fcf6101/01/2018\"Genesis Block\"",
       1,
       <<
          "e8c6e1735b25f64b32710345cbf67a4d7ecad6d11986b4703b7b5ac638035268",
          "ee0786a64d84c6689ef976572c5acffe318e0428376c6990a96e30cb8cfaba82",
          "66c4fc53d7efb00ba9ccc148b72fedaefad668f92b850b80bb74564503dde50f",
          "8224cf8b3ad0ad16c06bbd95c4af9278b9bc1b1cc6fe051db4bf2a815d7861e6",
          "d59ec5d1bd1f4a71a2b0f00a97bc15b75cb922bab0939049660c2f28bd9edb5b",
          "770870333c0e3c10e87aad221eb5c45d80f564ad045be7fc937d5933813c4ef5",
          "68e2eec9bc6b3740bd6eacd621780d434fb9ca40657df1f42913be5c5da24ec8",
          "b33b9f0c50b2466c2a4685a50d06b342eb0d80f5db4b968740dcc0461e75fa50",
          "258d340458051ddec0d0054174b32eba11fd5bc7cf80b9dca328668cee6f7ae9",
          "fa99786e2c918263006c510ed1b7c4f74b660b4a35d9ee8da7de1a689d1b37e7",
          "3a102471305bd5609869d1025b5f994713eb6f966399f5993adbb3ca3e724d38",
          "1be6f990fd6c00bfc58cc8f127c85c7c02a89d3a1c704b9a770663d2d7f4cd97",
          "63b4a7dea56b7999e3b69b7986621b9d9430e063f08205b52855c18bdbc8c426",
          "160b7c806b39206e7eb04848bd5844f167a0f642fac28e48c61d22825f15e84f",
          "b9dcde99b6cb5556e8742fee7f814d7bece553c5ec945fe51d5abada5a0c5ae8",
          "8b6e89234190843394102ce92a3af9d544224e72d2af59beb8fdbc76654b4ef6",
          "1b83a2c236a30af5e6c2f50afbd3e7e21936335dea2b4e52497455b58d1b13ce",
          "33c51e237305bb5fbeb6dd45030fb846a7b74255fed42272873cd60f818b9695",
          "87dba00a65b8e1c897d7fb6d8ec5459b98353dea67c89523e8ca655c6fcc9f78",
          "ecba5eadc2259e9dac61eecf25016c924bd9ce8043bcc23fb6e0c1175879a70c",
          "5878d665bf160f7d3586df5549574817ab5f80755f4b895ada65ba6a50c098d3",
          "5b6932fb1d7bc84f77a8f126fb186764b21530683266aaa2a240071bc768a97b",
          "b092175bcdd771b07c86d1d8098260ec1cea02e074ac436661f15c15bfe8a52f",
          "da48aad58f5ad7c0aa22051287e21f2fff8f3dbb083329507c06e714ed6e8782",
          "e8ba692bf69ca016bbdb4020a2c7d02f5422a7df1b457a86e0ac709e0d2739d6",
          "fd4d74fa5141405bd629feac46e8f6765f9067f34ea338c5ef92d669ed99ea8c",
          "59cf2f25a8d5945bd32f8271583147c7280dbe006602905f5da2b72a086d337f",
          "d0ac6d905eeff0b040f6057ae9d783359b1207af4fed9d334c37ac3e6dbad652",
          "3d826987a714bbe1d5a8ed9f1379caabab2b66fb870b36948c7883300138245a",
          "d3b81506ca44779645c2425483f5487cfd21425311dfd5f3aecb7b9eb5c9498d",
          "3a4888fe8c55d5869193b177bc5fc738e672329dabb71544068e195589c85b1b",
          "4c5dd33edf15ead9bf2f6cb06ba27e1aac05516c8ccfd8ef22e78ab82d094e86",
          "9804739265653c581b773ddff438fd003bb0c0d22c9855e592381acb08a0cba3",
          "585132951b7fd9157deec667a843f6c232bce4776caa5f3f513b00f807d4cc00",
          "d330eff62e3b0e555b6e9f0143f85d5a58c5bb7c29348ad4ed3b356fc0081603",
          "b2001f9bd8f10133e13a5e2f336428b8ab7ac880bd6a451805aefc8cbcd59115",
          "035d0b229b7c8d38deb56c321330c87bf1235e33ab3456b332ffab70d29a00b6",
          "dbc975cd41680da9ddfd9883402ab72bf80ab6761ee353f9c7aa825ea3a49aea",
          "25e8a3690071bdc6a7a35d05bfe8b556de891ac0026ec878742ecf2d43827389",
          "455ea93fbadb05dda7b02b1f2971a2bba4572bed8b6ac4484b3efbf9afd33dbb",
          "1e79918d36ae55ff140d94bb4ec68e7176cb0ffbf4435ed1ac64df4c66d4466f",
          "f055cc5c8e67440feb9fcb709558c5d4015c63f8368001ab28f47f0b98613998",
          "29f81c7bfc634e2263e69b91998a637b0a03c6cedae7e78cc6ecdf8d6f52f97a",
          "a78c955cc44748fae4397aae91b72df3aa721087bc71b6bc966e10cf485db179",
          "ad228747b914788a66c6ef21b8b60670fb02d9eac117cf2600083101a295e54f",
          "5b19947fd932f607a9f307291c7c3e3290c97d44440650cd16906f2d944a15ba",
          "79c2fa05e74fc82eb5e902bd9b7ee26220a367fa0cbe7cadcfe0cc1bd983c9fb",
          "beb0e087df77773a18f1bcffa3839a2641a8e6565f4fb54241f135558702cc0b",
          "47f31376f2746df2d855681144bcce04073e095ce781438f4d7cb0c9f31419d5",
          "c87c434786e9fde78af68222148d963c4aad3ffdd02e4c63b20080dd89a9ed83",
          "3e1e3e3d3ec4628595720e756c90cddeae6ea04fb9e91f9d7fbfc9684911159b",
          "d8d8b0ac133264ad9f6e6b7dffa4cdfa37c9454445b8982f1c1bf5db33903589",
          "c5065999c1049b499dbb452e175af2d97b78dc01c63974a1d8b6aaca57f88b06",
          "539e170d51b2dbddcd1ec40d7b92296323c88aa9a131217506d3708a4dcb0bbf",
          "6fe8397e331e6f19be318d9d223ee2e07caa2ca4b8ddefa6c1c65ef9d25545b5",
          "ffb3b13fc5d8a277930d5350ab109c8b49a4797598664e06adf45ae16224e899",
          "ef0bd644236c8e9dc5768da633c6038efea3c933ea9c88472e4100677e0a265e",
          "6b2fa6027bb035b17858f8b3d23ed6e703347ebc41868fd901cb93e3e1cb11da",
          "4c25dea266fa6c8b590146af12bdacc144442b77a1e01a74d439107effcda737",
          "65078084e342a5d4b341b2a015500fef29fe65ccef737231ad9644b8026c2a13",
          "dec2fe49bcd98f0faaf831245162c707270663d25e245a2f883968f56e228aa7",
          "34a5751825a82a12ee73103fe5a72a3b07670d62604ddbd41329b6a237b7d82f",
          "58693fa5504707aa8069b08846899f65830c9fb6e75b2cb31c3cb42e6d5b4aad",
          "83ba7938497dd3f1fd1916d83c2eee4e5c67d67ddfe0c16a7f8bc515def9636f",
          "e84aa507c29dddbb07455e2568f3f4e460be8138038cc8e109919a4ec49648f9",
          "d9429d9e6de45e7e6fa6324a3f594b0b309c7e66f8f5b6f0e914221ba91c64d4",
          "e39cd067da22d0f5d830d16a6fd086a560810381088564752b32ed85dab8c1fc",
          "d358f8ce4c02f376d5e1cf2e49884fe2ee5e84e7f35976b870edcfe47cea11cb",
          "e8d7e0629c6f3023bc16b31cc3f69234662954a6410ba0913e15dd6dea26c949",
          "a7df446916b56225f665c40b3150e8e592b350f6d021a02e5fdb8e8ad3565281",
          "c8636e31e57c25dc69362192e3ed2cbc50a2ba1ecf958e53ba562184e1d41161",
          "dc2936785c67730d5d6b23c8c792124fdff30eefe47cf9aff3108329eb77470a",
          "94860311a97d2148eb097bcf8db193864fd0f39616672e694770901a0c86851e",
          "4658752740785a175eb1b89d61437fcbbdebe737dec83516ecb6b51ea6bbe07b",
          "507c9301d5a7e6d9eb1b6481d30ea75839c6f4f99a5ad944818c1b4d35b65ec3",
          "dffd915a1270772d14bea813c62c2179ac0567bbd0992e6b15fe0ae0bccfa599",
          "6b4273cd9a0f015db66316ac30efaa36dc3c531fb0a9d009855e3d18b75215bb",
          "4ddfe4a48d5a8a85ccc267d0ca8e6c0c0fcc56da115030cc2b6887ec36ad2c56",
          "2d08ed4012a56f35544600722c4312013bac8347b74e2be010ac88ce94a376ec",
          "d6806379a3d2ee669f8c2278bb933b03cafc7f9074120697b3caff2afb7eabb8",
          "1249436f74c568cb09a537faadc8530c9d8086918893e820228f6a9fde5db03f",
          "e1baaea2c9fd663ed50d965e66488401e6c0131bef1d96469f516afd204e936d",
          "8daa778d7d7441a5689e378562161c563b8346c65310d6d4a3102803f58e25eb",
          "33d5131dab57c454a633774b0d5ecb01a23da1733a4edc1a95f1eee82f220c09",
          "b500ddbfaf9977f0887c4da0c94d165e661652ce954344950e7c97f4049439b5",
          "8e492d7108ca7509c4f3a256f197b3fdc690948733a25cac5f0c1b70f32ef972",
          "69a1a6ab5230ac1ece7c68be53047b535b31baaabccb6d6487dd87f3cfaeb24b",
          "ef7021d529bc3575f7f1733cd1de0704e3fa887c4be1d2accad8a313ba9fc81f",
          "bc817e46e610cfbffc121856ce4e5b9596afac288427a7e9f62c4399ceeea4de",
          "989b453e0633e6f41053095630b9111bca92306672a5505406dd4790d003ebf4",
          "a617ae78afb0ccb7243d644f4ff6b0b66bb2d23287de5f58e4a45953c7bba370",
          "cc554f2af78e2cada2a8e67b8e90e457b69671edda91c3ec15ad04dc381bfe6a",
          "43b1ebf91482b1bb92e8016bad21dfe276f3cc4f50cdba90e587de113f80eb7f",
          "0cf07ec81773c82d233c3ddccb179f4588ec0f9ad8f7810ac8a4f39aecd8a827",
          "0749e7c4a09507db29d8460378ee68b773ddafdca0ef8bb926db576567df223a",
          "8dde014c77c9168cc3925d7315ff3b2e5266440ca13e86a000fc85dc5fbc950f",
          "bac1c47004d5bc433aaaa2cf73ba6e7feae831ece2317e0b456acbebe573da68",
          "8d8aa6e41c73082707642b6302445ace9c232fdde973056fe3f4404e691b6c43",
          "924c6ccf5874c4e224befd704b2a3a43ed59e5366aca9790f0742f948fdc1390",
          "6b07a4ec388a065a4b5e933a9615ceb8ef8e5e22859144000297643bcaa1d67f",
          "fb1f4e78072a37636744fdc0a2b5062eb49baab2779b75bd7d7942f44be33fb0",
          "78cd49b33d0f8500f7a9ab4485d30b1c07aa8ced32e4c254d230b68c756ca4da",
          "4ed979d76c834782c1e775b669142dca38b3419de0253a8a8befddbd869d5df4",
          "21d201218f41b3248db3f33416dcc55a6a43faa857df336ce2ce211c9e0293a4",
          "682d5fdbe813f536fe7580df3494c6dde71839d54f4a4b56d4c6b6d92ed5f185",
          "fcb4954168444a0dce58ac4c0ea59061e0a5779f13a98f7afa388042bdeb21b7",
          "f85099d2fb3264b0b15887d2eb136c81a872673019e5deb259e3eb39230c1e63",
          "22b4266aab65c4ce863985df54b9e463dfe7e88f516d0ea043bd863b1161f84a",
          "7963c8c8484040323b5f41031a289d643de356b165de3b4e46f9228e2d95d55d",
          "5b833442f9bc6bd135461fd287a73605f871b1a0132694fc96740d6d229a8e77",
          "028184b48e490d3eb29d94c17497714bfd80220c7624390eba81a77b04d218e1",
          "1a983ffa4c16d85624359c3687b2eddf5eda4c0bd32035b527ef2a2e8ec15e29",
          "e26c0decc1f945cb46337afed3c4d436c272679581b2f2da8ebd7e53876264f2",
          "a5ea955ad104b763db1aa8d02b6199e5965b2a30e02ac507d41aebe409a7c76a",
          "b0fa7a96ee7c916e55471698b018a3ecacdd6cd145c8871931eeb41e07cf9d4d",
          "d7edcd1ea68aaa4ee6a98f292587b1730eb8278ec9eac61ed564287ee487b320",
          "6a11cc43f3bc381c83ec76b4737bde64da601c21be95da04fc39d167644c71fe",
          "8810e416b5749ff0b8dbf92973b5d41fd25158883ddae5edb8e4587b3ed6af3b",
          "f6e690933c394c1fa8a16795cd780fa91899a9fa54c2c73b693453334517db94",
          "e07114f574aad6a642a50d9d2ddcb7c8f7c1f3bb2e668ada4fcaf9a4e7d3ba4f",
          "4e3cd9eba7afc475b978d1e69fdf2f5b4e20fcec82ca71ebea5be1795143f743",
          "3eab0fc6fce465deb113756d85663e5b2f7773b936144324976a7becfb785b28",
          "d0b127aae3483f2a316510183446130b6beb377724c9578cacd413e1caac6856",
          "42a291482e4401221d54a190ee5f578d328731454e6a6a25a2493dfc5c0ab097",
          "641e189d021a91ce4e4b259107f035b13100285c3b22d2906b303dc571009580",
          "9f8758f752cbdb688cb6eedfcbebd5bad5dea8bd7c81d8f077f5a18d4ba201a5",
          "55e724a3569d28846c747fdfb7349dcf3268ebadfebd112f20127ed5b81b43e8",
          "e65c368b39350a9ef5c6727df7011ec181161d4bb87ef4eece0e1bdfa7b38fc4",
          "ea26c3d02dfaa5b8b44579b6c8a287d56c8c67538cec73492ea89ea93be9852c",
          "7543e1610590a4926f171e0fa529e5341640f3e0ebd51cb7fe1c53ec6c06a11e",
          "d6769e655da275046e591fabc4ab914f8d13614c7446c0e42fa1f1a7dca733f7",
          "f5843244d6cc5aa9177a5354304a4ac7e9588f7044f78d2b1f72089b2947b903",
          "1006ef054217af21b01e860c2bda5fb7c24b4270043851b93277c2e545e0a355",
          "d7573acdae2ff03a0c773907a21fadfce82df0173e9cb0f29dfa11371d80a16e",
          "87504c5612ba42b225fdfc3d0a66399bdffb2d65fd97cf7fcf4e5250e046d4df",
          "34b60ec0452e4fd9c7e976a5dfdeb67f399b399636f3eb79b117386054eb0bc2",
          "011dac1d95c3cd71be9d19a3dd4635ddccacf71d25f6f5527617150373f2afbf",
          "565e9a03b747e3b34489081c9fcd9aef5e0cbae34f2b5f53b8c8ee3cbdedacfd",
          "5fcb5989ecefeaeef284620d146bdcfc4b73688bae38ac7a5ded814757676397",
          "0d14c54d5c5cc30da95622d1a69699236c83c952e9c0ddf2e2c666876547dfd4",
          "55f72d263b159ea7ad876d7cc6c1ebf26cec18732d2d340b438a7257a5f8e892",
          "6986a7eddd9e941c4a0aa94dbb78502551bdc7d6972df5b6efb484323f637712",
          "625ea2423c6042e27088f5a04bb031ef1cab82b707770aabc0d8f07d126d7a85",
          "7ee3b20aee02e803857b66a9a96c7c8d3d9675bc0610249031b8a39d37cfe517",
          "b908ce00c05d063eefd6fe3e73fcd1f0fd741d04cb7a206249e475f257bef77f",
          "fdd75ba6d7cdbc9bc1b593c12fb3ee5699717d35fe51dd070d3d3e9c9b06eaf5",
          "4c888af4ef2a0e27e6bed36569dd2f1599ec397317a799b101e35b12d8a72392",
          "af5867c97f7ef67a420b08a5b32e09572e996d084045d8e2e6f71a15a162a139",
          "dda5a9a68aae2efa7964b733e3de75e341821fd18cd5f72f86995aa6230cf944",
          "ce23577ab3c580f1867f0d5ff3b2a563d3aac182fcd77be777a4308011e312b6",
          "ac9c315f1bc78dd1faed707a6070b38a6fb30ea3ad6bcd24af947465c357a988",
          "37c4ab00d992adb9ac45beea79fc66d4a6b78c4bbc4208bd93fe34a0cba760c8",
          "5b4b829d2a9a1d68e9ab87ee68323cbf2ccdd862c46e062fea7c8991f90b7d78",
          "38e95312d2e404b59cd8f9924089900602deeb045d9e13acf7c1cabccf3a33a5",
          "aa60029e712edf01c11b6ecebc7b4b6f78b46eea2f04ff35d5c68925ab62ef8e",
          "fd63e8fd302107630dd7164ca8eb3c313415babace38586ba0f9e4cac63e4abd",
          "3b5ca3715ded2815d1984412fde5771ef13ccdc62147b98c3b01d40d65ee49ee",
          "11f7bc42f6a2c6afa08dcd703836e8d8047b9bace15deb5c87925597a39afc3f",
          "eefdf61bd2cbe0455410a853a0d8eeff901039f3c6ad14866c752466d4e59d8a",
          "9d3bafbb49451bf3c40a091938bd8cf3545b2fce09bc32b680078f5005a03834",
          "6b75f1f80eaebea01d2227cb4fdcafa8d3f05f7378fe4df324f6dc83036eaed3",
          "74b2df2a8b8d806317760f76c0089b41ac04328724d66e33e1fa863b1925fa41",
          "3dde66d0aaf56e2443bab8d7bca64ce2153d6d5c7a2bfb4bd35501ea56e7f788",
          "0b43074c9d355a2e398a3765b2e6ee0dab8c33a3dc44f7531465f6f5a81f0446",
          "dabf406e14122fc614cdf903786250908ec685aeb04bfca0b34771a04db6b5bc",
          "00a8ef130804320c1d8e0841869a4702789889a926122726542d4dff055abf44"
       >>,
       "000f33cfdd109a439d0edb684c2ab0320ae323c8a0aa3db9648380e10426d745701/01/2018\"Genesis Block\"",
       1,
       <<
          "f2110c5270f19d0c55a77363830ee2770ae85ee7bf4d3ba90c76c3fbd60ae1f8",
          "134a87f2f2af12c2ecbf775fd1c0d5ad2f9fa98323b9ad176ae27f753a1ba2d1",
          "3be168b9513f574131ba2008beb1ea776319911d99ed39c2c0593b0815e57718",
          "6c2933ee638d6d5b1f0c6e6cdfea19f25edc2a5242b07556f6983587c3e33da5",
          "27a2a8c8a4259a36883f797a07a8c495e9fcf73bb9b27ec11542be52e5578228",
          "cf0a6afa22e6a09cdf17e0a85b4bab32ede8e41ed3f47e899739311e0df65bc8",
          "a249d0d53d5cc06e187fcc33ed3bc979b66a46a5c26d32218d08cb0534c3046f",
          "3288b805e3d0a725a3d8159a4ece8bdad00ce053e1a539b27b72306b637462db",
          "73a70023c12ed93e2b6317d89ba2333403ef976dc981cdb677764191d9d65b7a",
          "dd1ad579985e7da92240052e5d962858893912c853e2882f339264421facae12",
          "22b395d1828302c8a43655c2fb477cd2991b9ec3d9e4f59801ba0131a984a497",
          "95e06e7d65e6ca34945399e309d60c4956c81e0c0ab18ed6b95ca1a0c02db837",
          "8b0373df5bc0ce57f7c482cb8c9a571f1a2e95e8aec01a69d08c1f1248931e76",
          "8a5f9cf11d543da5056582f4e06fa13303e108176ec20f46d9bf688596c11c59",
          "a4ceae847e36db320a7d03c45a6f9078c3d691da0ee1c003ee8f5e90bddbea53",
          "91b042ddca7ae7fa3aa86d45386663726455cae84051fc3901b5c116b20e68e5",
          "dbcc0ce0939c8bf3df0f411dce2e910d8c2d4ec98d2efbe115a60b5f8a0c9d2a",
          "26f3bfd0dd9fe20ea25ffbbfe795f4c3d3f8eb0fc168b3cb5750a0c1e5796b07",
          "852121d301d3b42d36004755da4276c2f89515851ced3b13843c8f1ef0160486",
          "07fe3ce4bb84cc61c151990cfffa3b1800c0b9d4dd256c6b53919addda040507",
          "65507d29cfe2594d8f9bf6d62ad8c2659244a48c725bd0dbbc8bf2352ece3991",
          "dfb6abdf5b3dc5ac9c1d3ea786ad50c066a7464abad315d102ade6561482e6e0",
          "6bbc10ebd30b1eaf93dc21ea563f34fdfdf71dbae5fae8114c7d2d41066edf73",
          "48c41917c959d5465a3664da66b5c8d46fc7807a8b5d0a76fa6c25c4e86dc611",
          "8c45fb8761989830a263e915d914fccff88540b315dcb9784a5df18412fcad92",
          "5a0f84a26be2c3f3fa6bf3ed864beefbff6b8ac5c57689bfa606921324584f9c",
          "d5ae9dde7b4ebb2bc2b48bba7ea2b81ae7a1b3b0bafbef8b9fbbd18277a7b3a6",
          "751b815aa491b307d4aefdb38edf6fd463612372b7bcae5e827e92a931c6c28b",
          "cf91e17984c997aaed2338fa382f528444a1bfe4c51a9d9ddf799d59fb7dced4",
          "c282f0a0a2cd18d22a4e73a7727f6f39b772649bbaba9b72352ac44748b151ba",
          "085848d770123389cd1d2c5448210463956a0094b6eec7cd2b4a7233ebed21d1",
          "706a270885b90e266545ef92a0802026d36624bf2cb29c1e45f53c4eb3a42104",
          "f9d57c4c1163cd49697249ecc05bbe3cbdb54fae239e340338a5410268051ef3",
          "da04bffd3bdfbe986bb54636327bb6e5692eb175c46d66ec749c9404aa4a2a25",
          "7d9df0321c250ab4ea06339cb4330499fc8d621cb4ff656b1a810147fba5cd8c",
          "9a9855aa4d1bc54d604b422f02a4622495096017d78d8268b41d1e55c1178e04",
          "f7de0bdac52ceb17f83f12f599e8d37ddb0d4287cb4adc4104f79600217908d3",
          "8fee177b207821ef5f0cd340942b51a6c13c5c9ce36850ccc5ce86e25faba7cc",
          "dabada98bf3be9aeeb838d729f3e25a6af24d6b187e927e13e4cd1ca628da15b",
          "c3b998ef9c27e9f3c5802d6ed658349cb071ac5dd25b13b3c5af6ee779685276",
          "9fdd68022acb9a6b6d19ce7a8d8b68897182b60a79ed4d99a7e6489201d33d8c",
          "c61f55875a74147b5e5912258067ac07d799f6f7380a4580218b71d1523fa830",
          "98942a48c1128014b50dfde1d723f8e186e9d10dcf34ac17de54b8f20a4e44c2",
          "da37ea0afc799a9ade0b9ad0646fff21faa77015f01f2c580fd6fca66fe32415",
          "1ff7bad1761be222a6677f2bc2023c66eaa8cb7beb3981b94f15d020851c6394",
          "94608ed43839cf7759a99c23ad3febaec1730e411252630f0f8361fcaa8f19fc",
          "adbd4093bc89fd1ad0871bdb44d70cf1e293560c20c3bd4a6c774acb900eae8b",
          "e42477b5d0eb9dbd5838e0dbf6fc09597b13e7be9656037a7a0b84f6a8e5f24d",
          "0c1e16beb4ad424e3272df0b4c902596478e3cb2844d7046928849fa36b1b3c6",
          "f540d3a630f10bd3d3ba16a20150cc3991cac264623bf71671bc8032d15fd649",
          "ff62f9910bd774daa43fe72d2950c2e671e9acbc865ccdd5cb24cfe51b5a2a25",
          "271de221780fdd298f50ff1542583c3753c68cd79ca1a1619f1f5bf7bffd9bbc",
          "96b10a9ee0ff9f64b39f597b1970e7dd49c26ae8bb30bcb25cfe545754427b40",
          "b7a2727213aa0053716db5f3097e8bd832a5504097264d16ac7f20436ff4dcd8",
          "e35ade2250aad364c549aebd8815b8db61995e7a9b47b34ec84b3221598a61f5",
          "d3d13ebc253310583fec2f4867f7f20722ea04c164e9b4ca94a4470ffd2a18e6",
          "3c2c7a33e391be249165488397c9c614acd178cb19dd970857689b4fa4affc03",
          "33f9105840d0c235e1cb7a49dcdf5d0217ea6cc2c98bab437808f113a971627e",
          "e0b4a012b38e78e3ca77d430d8d2e5776ce234c061529f9d3a906bd804f54fc8",
          "922f1fc664db9573a1381bc3ae8ea187aa160fd90f3d365efdbaa9485250a0c5",
          "b07ae2d48b5b80b792bd5a2324482750e87ab6336114d96fd7a9b971384ca9d0",
          "e825bbd78090d34bbc9e146bfbdf1ed3a191aa82ad96095a7b32f831aab89054",
          "4088e12916345bfafe242daecb12890628da0bc663e16b762e03f541073d5a7e",
          "9043b56f51d8209156b93411ea813437389e76eb4000d8f3b7f67b4c4f6939ae",
          "9cfeb21aab7f85736af71bdd2c02313e409c417485a9f2f86054e4419b18a441",
          "f512520fb751ce1d7366049a9f466cfed0f801a23157090fd1d4fc4cb2ad2245",
          "22c0677ee4bb624993a5cb9878824f5d214a2dc14213ec16bc94e8124f1d83a4",
          "78b796aecbbde9d060b848a4d9f409801db9e2a83fcd9d590fc72f797ddcae53",
          "7d33cbb5306e9d3a5fa1eea4fed4d788fce01ae4087649f194721285ad6b49c1",
          "4851df27758503feb19599536b46662f8710918462a50eea22455e2b97c0c153",
          "2371473bd0cdf2901a3d8e2d3fdc9e166b488fc2811d49bd01bc6a496eeabe34",
          "d97a1ebe70770cbed88c9a1dc027df655aa2bc3d0d751fea1609486df330d2c6",
          "a321f2cdd1f299769882dad814d8fc5997b67a0c9294c3cd80a4965a35d94227",
          "91a3e6b731b186df3bad769406f7709c3b95079ab0d85a16d9782c9be167e269",
          "94a3bd18df35633807e9e2d9b5a99e18e698c439ffa6b490201fda1c4a43834a",
          "4657df0f622cdfbbae85828683e021f0a03567b583cf00e83f1936527d464385",
          "17313d2dc9c7d61e612b16723fcaf993d206acfd44c347a3b7ab8d52633d1c79",
          "26e1f820af3a714022bd8026cc31143f2915bccc1293ba8aa0b099f12fe831b4",
          "5bc71567a6ded79b6dba65ac006551b9d2bc697a01c461ee38af99765e02561a",
          "1d5cb49ede2eab91ef1d483d6dd452189e65a4a5ff9ad163fadce50cdfa54198",
          "704a02c41e6789a1aa9c9548f098b69d4fe0cbc10788d099879b8b5247936a1c",
          "c5043d53b94d9bf397db6735549559909b7e9d3e38384dd8e9cd75fd6f8fa491",
          "538134eabfeafe460dbdff6873888a7e4c5b3dadfee0293503098c87d6a67099",
          "6321749a4b9096d5afc5709e24196588e9407622ced433f421366461a07761d0",
          "5b6c3aced997d00f3d9b661a0eae2361f8279fd6e83bf71d5da9026429d38490",
          "4db8a1ec532e22d196fbc821c30f454a62f935f04afaee94e1f94770d4f0c6b4",
          "3ceaa76c3f84e871b418a92fd3b9f549a424dd53e6de44a5255cc0a9c2bb3248",
          "145dc07cb778515b67619d3b5cf1c3c47c641fe647e8a7db3387d8095fac06ab",
          "aaae1f8136149a7c69c2341bc93e42513ebe52055c9135803780da18ad325abf",
          "6d1bfba739af835ffcb65606e6f0cde30648cf89692f8e39e9293d64e66c7435",
          "d1991711403125ea92f1d9401dc3afd6f988348a0d074abe17486daf8d80f188",
          "fdcfd0f9e1ef537ceba461806bc5b43604b36bfd81f82ca431255a116f2f44f5",
          "66330ec18625ed3519188d83abb662d74c74a222c7c6e9a356d6600fcad9cc4b",
          "deb3d3bc7227683d838a67ff7fb0839235763a67373927372713dbbf562cb13e",
          "d099b8f061fbedb91f3490a3e51624e5a911e7c31bd13ff5efe096bc87f87e99",
          "f9183130d4ca7d8ad3be3e552d35dae05196cf605beee39f5a68a581bc68a0f5",
          "ef0515da9478177f7cbfbceb3ef08f700ed2fcf78af36841982ba35e4d898c14",
          "b2389c9e5d3f36fed2db7a45f46a3cf65493c4a30573424dca0a23bd067a9967",
          "a1f24892b409417955d20636bd51bc2cfb8ad57fbd9b3cfc5b32271c739e0204",
          "b02f47c379a18f4648af49928bfa49047d959c39e388b421aaebb48cbf1929dd",
          "a2b206f3e81ccd6551b56417fbe640b9f61430c81be3360b19805d8744ba4f1a",
          "aec0ead27ebfa1de879b3b1bcca6d3633b9806d74540731d590ef0a52df95105",
          "615a248c037757ae29e453ec14701ff1463e948f484a03fb67b66acddf98cd1d",
          "a573c42ba52a7d3d6743ea47c99a58357dca828b77e9731d98a16952e117603f",
          "20f2c82c00db4bc67e939cdb64dcbf6f29760fb34a9485d87c920d6cd8a75a8a",
          "8ed3e0700e85bf2e2a9150b43d9093364cf32ffefd3e91cbd5baf86516a03093",
          "e9b575c2d00be71fb6672ef3e9ad7699b471bb30db5615e29a8c53556fad58e0",
          "265ef6412109fbc1080ab388c159815f26a2f4119edd1992c662c095b3a64862",
          "754be6663083eeb4b6835df4ee19689fb47e9edada91186faa088b457b0305e9",
          "745eb6e0281f9120eaeaf64e1ccdb7bcf22830d9c1a034e7e13634588628115f",
          "5fc276c193d603bac7ee69ed95322d65765ae1bb392524ec84ce7b9afb971376",
          "8b11aae9d8a4de6216ae60a971e16fd56ab9a2e5cd3fbe456c96dfd16de96092",
          "c1622dc53565711cb6d18fb3d3ebb27fc1606558b05fc6f910a8ceaddf404c66",
          "3d6bcb797635aa591970df13f8c0f12e88046b3305439375f49cf2cf7c2228f3",
          "f87e5a6e1eccf5ba4e847e1fc0e078d7fcbf7c391bd6240737eac3baa18089e7",
          "cd3dd6b24273261e9b21dba79f01e74c348b9b525b2d480f527237accb851250",
          "6ca12ffb7573b661b42eece097acbc5279ef689da7f349bc6f105df6a4fed7af",
          "a091baf1a8e30be0914824ef7b7c8f3293fb62c4050697b146996fa4d978c5c1",
          "c87eff7176ee0158941352ee21ecb4fac40f11cf0966d70f460d898723145a99",
          "ca1322e94b9fdc84a777b942801e6dd995836f2922cc72ed3362735c31a18187",
          "861113ac6592bb979c356df35d18003339f40a91ccc63d22519f24b73e254895",
          "54cd35ff84b673923008cdc9dbb9f49a5fd004721431f4cad4ee6795d33a0ef1",
          "bf6a24f979fef20851192db0122ed2d931695578b8d6a4c5bf8e033fc7e7392e",
          "cd93c943a56624b22d07bd6a5b33100ea6b0fb153707eebb5c1c81e7152276cf",
          "90e5ddcaba2aaec19b6425cc8b58c0eb9ada8972eef3df890a8fa65a4136fc18",
          "f8b9f3a33579c85946690f3f5116a749f7316db209b8a633929ed2760571a3b5",
          "cf036b5e542e0accb5c190ed32855e3f990603ba998487ed3347984842e072d8",
          "ad82d1d147cad07654ec2121d53d73722f6f5fb7ed91debd765aa5a2e03a7c6d",
          "4f4adb69216621d01f12fb462178f2c6d78f7dbe822454307e6d7ecd5f486a60",
          "6d886f6404644f71067127c87f823406a0f3fc369bf04b50a55e861915dae8d2",
          "8ec1396696bbaa94ca4a66f2ee064c1dd514ec2c378927679738ae0e46cd1397",
          "be6b80db5caefa09f7c67574553a36ff42641e47670964f3287f2acf0bf55522",
          "7d9fb986ff8f0dd7063c28598461a203a10b1e2664f4e315ea1f4ea029464f66",
          "7f70f9244afcd01ae8afa65d38ee084a1884894cab38d4a08e81d11e313b958b",
          "0db1be57075d53c62efd8fd6bdc1174d946b4bdceef9fa07d1bba0ec0d2860e3",
          "d21a9898e55d9cd189293f87316bab3be696a2287c5b4ad382c16504013eabe7",
          "7ff11a0fd7ed8a3b94e7d07e5a36af6c9db48ab318305add0f73bbdfbfcdacd6",
          "85f70361ce0bc1f71e9c9a8b22c41692311ee8a2c693df5862a9e915e9da7b8b",
          "75e25aeae1a44b9388bad6979c92381906efddc35f9ea991f19c61bcb33aadd2",
          "4f1b5d00436d279c067033fb22e64a8246cf3927d397dc1e19c5ddab3b329b06",
          "f9a389dbe63cb4a94c86d54c3dec8836cec8177afff2b34a3facbe56633209f3",
          "1f96fb54c49b74f066505ed114170f0f66f53f896db228ee4fa596b5db0f8174",
          "6be14f554b920c6c35a30e3e0ac38efcda70e7da422fd8e991a8353d84936737",
          "c036c052748b4683df78835bd4db340aed04569ecff7a6b4844027746faf7e76",
          "d2ef8633669f46ee1feeb5592b09a34b5fceb788fadbd1a5e5b60f88e3593250",
          "073a26ef9543d3930be531f645ef3bdb6c473c4951a0fe83112f9986110480d5",
          "e43f95831317af50710f73df140b56119bf861a37faff8bb2f870fc64e9b87fa",
          "2308fc873d4073f5be9556276303edcab67a7c580ada4c823fe919e9ced524ce",
          "3a25dafedb34602fb96142406780646ee253087e525f3f7e26cc25893e5bd3f6",
          "e5d2957c8ade70a7ac69ff3ed6c8317ed62cf4c8f6eebf53ec23535242ea2658",
          "4bd49b7cd95ec6eea35470477a0186b7dac05910a568a297f17db2414952fef8",
          "71116cffc750b3f2ca9240e7ea56f8b078865f1ab542059bd1ae4913996d8c63",
          "9a3f4fd1e560e4d3ff1a8bae855670295017d406f6fc524e797236398b0388f3",
          "a1d16eaff5e78e9e2a441b1297509ff0bb065143425c48fdb9e4db5f672ce1cb",
          "104c1430c3c6c2035633e7b08644f9d6f1e78b7cc253a0415ad56fb365f278b5",
          "bc248403b96f16e9ee3781eafe5463e6d994d8f6020c29672df43bb0ac2ade5a",
          "6cbfc178ce3cc8e3dd5fe80e263bd66ed9417a02b0b8043e04f271f262b2eadc",
          "8cfc3eac76297fa3e52af94369d2cd4bde6160c1bb74ef823b1a81c04f28edb3",
          "cfd653701dded31d1304d4c49cd2ff23d0c6fabe2eb8e691728c6396a0768227",
          "9ed0ef738b9429ad33d93cf0ca5276bc6edd0ca6fedbd00ff528673fbcd6e548",
          "e0fdde33aac196d73173c7cba325db0eba802d3d2c8886a853d72ee1900bcc00",
          "804886164bbe13efb92fa852af13c4478d7cb61ff44c2077511926ef1c4fc2a3",
          "f2048e78570e8327da037aac7c0b5c30e164d441194d0b98586198874e4ec389",
          "277ad082940b8557b8fc07c2af7f008585e52da66e3a4b3cc4058b5ea9e51e31",
          "9bdb1d7d02eb73fad841d3d3b692945a5ae85817e27e525e2d43f78d538e308a",
          "848f20429112cbc3db9286471c7f379af77b6f5963991f01de9a8b439d94294b",
          "43284f0cdfd654cd3c9c5cbf3fad5cbb34a367a5e395ab7e14f4ec261818914a",
          "7efb88f6db21924e4f861da752ee82a91687afa78ff57e90c0e8464b01c61cd3",
          "1c62377be2f72e1d760196a68c8dc5368237eb72fd39a2f19262b5f769d2ad22",
          "3351330513c1b1a93def0984c55c6ef3ddfdaf2e502c624d25fb470aee8af81b",
          "a64303c14df681e92d8e83e5a9caecf4ab4d839eabd0b1268a8a30d4db0d2db1",
          "b81b0afe80625acac58a0ee6f664c8523a1e7bc98fa4b06ee85daba04ab3954f",
          "9d6ffe97a051e8c3b1bdb490e6b62c22214b593e945c5b6348609c979e1c081f",
          "c6cb8486619234ea371069c970d9bc4d94cc0d79847998fc4e446b13891ea8bd",
          "c4a4bd8c208db38a73b6ac29b511a66cbe031d8ac851ce16513b6fefa1ec1a59",
          "258615be37a4df2ccf5dca99cd6a271376f8adc88f9a09fc6ef134c9ee770110",
          "89fbdb1adaa1c9664665d3753b2f29fb7a936b5742164df84acfad31d4e44dd5",
          "689920fa35a63de1c5220ca41a6d5fa92aecd112b5f60d62787dbe8476831932",
          "bd00a266f2631db72c35b32526390763f9800130af28603929c0b6ad561cb7a9",
          "89a6aa9b01013ef4d2463096b87ec499eda1200b756d20797601e14dac0b9ede",
          "426907b7cb5f26eb6cab0b7bd4112ac93b0d83b749bf7e0b1c627bd8f69d1e53",
          "2bc1ad5959038e459dc88ceaa11ffff327a45b08d6550dcc0343459fc779b186",
          "da55dc6a4f60999fe0060356df705332b76eeae105c0578b518d9130567a66f6",
          "8cdf9e55ffbe48afa814305c6fe7c01e71150a8d129d54909e46ae719ed22fc6",
          "3be1072e2bcd93cb1af017e9891f6c6939d8b60787d93276cff8d46616c2d7d6",
          "96313e3988431428d301f19ae55a2e8264e03357f114a011944078ba241e6302",
          "0c840a774f997c4cf14c010ddc94e44f6d2d4dc13faa49ad51ebbae555cfbada",
          "77f5763ada2aa326633a4ae62bc820ede98d3721509c58d6841a31a4bac94d08",
          "2c5927fed66c5d63fe6ace5c05e0a69de78d12ba8d991f58f9dca72b88e02bf8",
          "c44992b6778639728fe66422f4bf3d1eff6675289b9f04c36ad7a922ba926a78",
          "93f384c55071d958754a019c5ebadac275e2614d10a8f8c48bf6786032044e20",
          "ed252b555fbee96574e6209d721a2dcd52684e34ee3f08575e296432dee91815",
          "d7b10a3463eed946508ca6731225ca8b83d9ac087fa5fed55c8bb876f5ea9a14",
          "1529c8e6e3c677aa37befa9d671cd4d50290e7ab99bb5e56f9cc472f6151e822",
          "895b8e0c3c67fb1a98d36237a73963dbe1a7a940b1424858fd5852b7e6e167ea",
          "47f1f2dfe75cec4d9ae7a5cf3c29920c456061ca1cb31b9475ff84a40f9f641b",
          "813fc75cc970d035854881936efc54c311c087e37e9a57adb02c15e5f08ba544",
          "50b3712e00b109404f9200013941b19115018749f9f0fe6fc172be3ff029702f",
          "355c7815025595c803ac7a53f50e4e1f0ede436a936a13040aaad9f31bda5bf9",
          "66404da0c41c71f3f378e180cdff986e0a35d4a32708aa7e7d6a7e8487dee0d3",
          "4af7dbaa5c95a6a44844f734b5d2b356e938d156ab44dc6623e947f3568c637c",
          "4a39715b05c99f766ab3983212474519c70fd3460a47e02f48273587ed50bba1",
          "99ca1b2e42e1e6880414316fe248dbc68244fd2d6d59d3f33ae21e465827d1bb",
          "f44b2c0a2b6cb757e031614c0da94a87f546133a8b15c1375e557890f2339131",
          "8335868dc449721f8c75d9492b3695edb8484b455e7de58108d4a57b985f6e4b",
          "2f0f03860a2e67c9439778af492c64e9a09150e8663cb57312e406216bd8a08b",
          "5c2ef05b42770ef5a820cad45eef17719d74a4d236b04046257b21051fb2dcaa",
          "7b13965d3bc69fdfc0231e7b550f92b4629a10c3f695d801d9fb87b34721b7f3",
          "0bd48f68e7355eefd30577f6b09bf1120ec3851fdc22d12671115352f18f5458",
          "869c18a110770474c89e8b9e64f66c095471f8513da0239791bb935d51b4734d",
          "d25f4c3eab65042d16b85b89554feff7a0daaccfc6bd5830780bd5cddbb96acf",
          "ccf8ad723cfa77ada20a333cbcb9fb110a187e4bdc4a066f62ea1cdce87c6ed0",
          "8e78d7bbaa636cdf3fca8c691181c4b146241397e71b9d27c500b1919643dd0f",
          "43df60a209cef18d8bd15264075035a67687531ab5a429bff1dd57839ccb0c0e",
          "7093def7c2a2281fc0a60e30c81220d5ae2273b2a9119dce2f6b2acfd72360b5",
          "d3c865f0b131e85f2beccc35479d266b336b1166a585d9e4450def1269ba9632",
          "1774b3ddeef5d3212ca8dcaab2d00b68f7f8537f97638ae821fda8f0ada85c96",
          "efc6c28908db68464a8a6b24d02e464aa16a41a492a96b233c0583381541a266",
          "b744777757785f1153e68e94e9cad922f42d68fcca367d81c3be666065614e03",
          "aafb7edf31ce016a7fb712fa4668dff10625e34b0bff99ede3cd8da591c3f89f",
          "85186e5b52e98c85f4fdc5a244d6831df46c5e1de0fffc4b3f393d6c68202203",
          "b505e15717a077c401c6f1a156d17571bec1cbb247ffb7c059e100ad82c9cabc",
          "b760e146efd779f927f134bcad5b73a9e433e58cc811585702470aa02cd99f30",
          "8cd6ac97e142466cb5c49be40a48284c565b7993e69a4824de1aab26c087ab00",
          "00b80da2d874503a7087de163922b3c1a9e0c1c1af165323fb0de5f4decb2ecc"
       >>,
       "0b584e4c01f1225d68276ff7ea0e2d07326b3a1bb4bc98426a77b3ea195896fc201/01/2018\"Genesis Block\"",
       1,
       <<
          "ba2ac4694d4cfb590cb7f1d83fc4b96b0a109115435ae672d369543694dd05b6",
          "83af8cb0cd27bc74c7fde827376ce0d5b37f31e6f9d2d8ed1dc523b7b7198892",
          "200fb8f26b387540a1ae54f0c7c30fece9e2e0af454eb6d16be401912c31e9a6",
          "6445feb159b46a128a1d6ee50d59e50417986d8fdaa53f2655cf75225ea60eea",
          "8d71c75d45d9f79c4f6c966bf6e5a6290362c4b1f5c5f476e766373781ea612c",
          "2a5595b66c1d36003dfdc0437ba22cb47a0323a7afa9cad71cd465ef2eba8c6d",
          "35f415c6c7917ab85da73ea1366da543e9c82c71ae76ad6f7d69d7c56c0f0c6d",
          "5c0dfa7b16b9d0b4e31fcd1d660ee34feb1c1fc90c2d88926b1bfbaab5d80ec8",
          "94f0247806e1013de060da58701623d6b446f0410eae5c984d6efb293542edca",
          "4632d4e17ac77f1b31bdd1563f5fa47db41f74f62a398b4141b8b35d59760202",
          "9e8e6c611d1f3338beb980f8fd703e15ccfc27672fafaf57cab280442dba8527",
          "1cfaa33aa088883ee0e5d245a6a369ec53cd14fc467f6829cf2cd453788f8382",
          "cc502038605f0c73ff1a2ff470e40a78d9831503321c3bee15d2d959198642e7",
          "183f72c6da5168fb9f921a58d3b3e4f0fa3726d7be8cd6c4db1ce2a4bef97724",
          "454dc615a45488573def7ee065e7a4b84f8fdde4309421e4828fe9b29f759fe9",
          "867ba169ee65f60c26c43e0ed5c730658c84418ae33c506e38f285a56dc3cd34",
          "cd2c3867352138d51ea178cb2c154ccde901308c3a9afcb50941ca642658f20e",
          "9a023fbfb793111b70ec16835e126024884e91ef283e944d09b0eca75a732763",
          "965f945d763b8e8432c3daeb13ec6b52fae3aeda2c9478f7aefde71de322a5c5",
          "339a816c3ce89456d2903daae0600233e1733e4cb57f4b32bdc62cf9721dd40c",
          "e00febb0396b5394b5b51fef75b23096c69a967106c805df6768fc56e809040b",
          "f903a0a589ff1108b47b518f391ca37f28b8623b99c9ccc8466f06d44289756f",
          "3fcdcbecf8187cb0b8a81584249cc9d46cd2969b4fad8ff0e3fdf4ee6ae7dce2",
          "a25d77e1b8f383d1b164d606848711ffc32ea6f3fee9e9b461823fd01d934362",
          "251fdcd22807a1e509ddad939e9076181132b6a6c01590840b1499e6487442e5",
          "f916e98b5be611652a5665788c75f1ba6c0b18184f5496aecb88f70f9f3412e4",
          "215ad6ecec0077736e6f0fa7bcaecbd644e376d99dead8516d35dc0973397414",
          "c256dec835124907e624e69e786b22c236f09b3dde75563a6662a1cedc41bf97",
          "710fc0b6f982773b2f440ab9d82eee432ef53fca515d7000c177a7a74a361430",
          "b33df17656109751a39c705511d42ca8429766c0d9dd6a755d5863c6a19ce1ef",
          "fac123a35a4f9989e8b306e7452bde87b7c7033534defc66a1266f91a6209a7e",
          "9dd4eae570071f9fe6af4194d5c510300a07962d09e66d5c2c5cb7e17162d462",
          "1802aef1f4f6e59581ecf2ef6835e2616d6d7547bda7e4fd0417dc724ecc7f41",
          "9838b4d269d010f72223927ad880e49a411808d23553b85aadcb251d46b1895f",
          "63e85c603c14b3c9edcf20f868ec85bff82a1c134bdda92b6e28a44fa8aa8ed0",
          "8c595de6228db23618ad745fafb58042b9a5e9a8deab9ab7a3a340a3c21b6a84",
          "217fe94339a84ef810ddcc25f40ad686e0045ee9b79c50a5b0ed543441d9159d",
          "82822f7139c1661b9bfd182ce7a4939f8dae49630aef36b9700bbd0661f67aa8",
          "6b3406faeba5964f6f6b70d34f05cb6aacc3caca3e256a13a990695f38ec9fc5",
          "5cd4d6bd1f391952fbddfdd1b65d314aecc335a515b63b957e0ca709317d08f7",
          "c87acd8de4f8cc086f2adf37d254b97a86cbaec0b24ac242e6c7c0b2b4781091",
          "89b0f2c98ad06bf779fc7390898e5723a611060fb94a6aa8c2f2c37d9da97dcc",
          "fb24af7e566eee35559f9005c4961dfb10d42425a4f942e357952af2285572f6",
          "be2de9fe673c65ce8b5a96469e121cfc7ac24d873aca8861b948191f8a9c7d61",
          "d0f39b32063a061270083473119973e4a27bea7c7f33a25888ed7b8f00a51ecb",
          "0f957632a2040d517e83bf2e1c1f471af672ddfe9c886519319432b00b48c5b6",
          "e75d0302d1af021d8014052403c7026de5ec6ba7d6a6555b6a62a17a62492415",
          "d9add3555764b295ed8db8a5a05b22d3ca334dc6a937f35473b482d88e407915",
          "aadce84fb16978acf61b9042700b7f263aa18737c56e572e3d70c709bcf1bae6",
          "92ece09654d9fec2c71e6ca288f8eba8af5e70c803d30cafc69eff205922bdad",
          "dba8487ada2528d56ec99e57f839095f5b8d043ef739a77e0538efd9e3a46d72",
          "4cad996c5702f512775cbbe1aaabc9f9fe313df9a2d298e4f0924cff5c371437",
          "62d4d77f031adbe21b1bcce8588ad38e0f854c418190103fb9df0d870ecac19a",
          "e7cd8e49ba9323b311d2a33a6c232fbe9d360b458944abc63bc7bde1dfbe17ad",
          "1c5019209e5ea11e83de0402790d53c8ed1a79e5823ed199a9a02af550794950",
          "d97890d1d31e19b21c5b554e7b7f87c87be09a0f646f671d385f7a9b9820e8c1",
          "ddbf672cf0068055e51fedd8a69d5dc946df8da1cec6c3da68d6f00547404b94",
          "9625ede28cabdd8f541aaff9b1e8ddb558b47e0e80db51e27e3eb1b9540f31a5",
          "a63dd7410b60abadb78d1fdc75fbd4ec0072bfdcc5d861bd101062c891c521f1",
          "e2319e5a1b9fc11b0588a037c2e79c55c0be973a2598fd83f93b139b5bdfe9ab",
          "0ef6f60be11f134ed7139ee483ef41bf06485880d2b2c0a2c1202ab91dba385f",
          "af909bce6bb8a9ba1d3cde474673867ce5ab1413fd503a87e1406e04019a3e16",
          "6d0f8ffc2b6daaa26e7b5e4b405aa4f0d4d13d7269f6e48095c8a03412e2a905",
          "9722169ec8edeff2389f505ea889b71a85f3f3e67af5be8d7b56f2a6b30ed314",
          "f30515a5a32c6235152205608f0b49ddee9fd3164023d406b7282faf9cbbc662",
          "88b0728ec4a8c6bf14d30edfe8f33dd10d685b3765f3d2565432a11873b5e472",
          "781c3cb6479f5337d8258180a932f8faf5537239dddc4f47fb51e7184eb13e36",
          "8a62ee156983a01190b38150e927cb2b7e9da4d06388b9e3f54a0c517ad55637",
          "9bab6156abec72ffe296a3d276427dbc87af7e9ee4d020d43f736b1b3ed5a123",
          "170c49e913fc5efbc4eca5a5543d2870f0b075443b0871ceed7f38a32a5f02bd",
          "ce84efe559d8fc918447c496b4602dccbb9af7162168a6518e1fda9b46332650",
          "936e8527f8d294eb48bf5983e69a14364e5cea05d4dae63914b579a5d06a2e50",
          "8943cafe0acfd16ce4dd72dd0d6991a650a0826e8f4cc282a84bd0a1fa25b841",
          "ecc42b543a0aa9e7e5de1b793aebc58e9fd5671683b14b8986b28306f2431ea4",
          "f17bfb27f224b3804f9dc24550335922384393b490f1c0bcfa2fe801ad8f3b8d",
          "a7b61c732cfd25cda7b0afa76435285f40bcb868f8520ba21c738ef2a6482864",
          "416bc160fc57b0ec5cd9a176fe797c733d24ce0e036126b27a96a55326817657",
          "3dc742608024cac1807eb652ab9658ce82ff8a6aff039dcc0546f1d37800ffca",
          "36c2759b1303577209812749d4575bd82638c46eab3f688cb62174f7bf78273b",
          "8769eda367860457832a83fdd5da4b1b0e4ef035dff0d5be52355315f123de57",
          "697c65b356f0219a38942adcd091ee83f15fbcdb34c54238aa975710f2c1e6a8",
          "7938221aa301f6816459be576ea7b999d588f907f0d88f5e8b44cdaebb3fe89c",
          "5f470a9cbe91c77537f1b655b24f021ffccb000267c4e275aa8cf444e5f84cec",
          "9fc2e3a25b28e0f105d98417cd60061cd0c8a403d09f8daa83ed9f6f857ff70c",
          "9a2811c1d9f2c59318d2d665e7d62b9d6e39f457f409f30dbaaad9e4505cf8e1",
          "ff05238545b153c52a0cf5ed992049ba473d5b35563d016906262c76a3f8f14e",
          "d53847e6775c164952200047181d7b0a8000c05991135742b44be2fb1fa59ce2",
          "55710df9d3fe47851b730c9f6cff530eb70440562d7fc92ebea584c4fee1b62d",
          "f5099f6679ef555d64ba4bce753e8087d6c244f5e8ec9f01c2ca03c146571e87",
          "b600f4889db48da4c313d42589b67fd10037f11fe4ccc73c313f3c27864d79ff",
          "e6f04ca7cdbb68da3c25e145cd00bf9e44b1a1d4c6c4122eaa3479d840a5a64c",
          "93ab5fe607391720322842b1fdeefb2c78b104fe68d8fcf14428465287c9f180",
          "1d44794d7b3331b51bc99f6127f614c6c92b3b61dc4e5baf8b358ad2eea72430",
          "0925ebac019758b42ae0e6e484ca18f832069c9c93c0d2879899c6f340fe3edc",
          "0c1d9b7d91952dd8f7c9fba642791cc4c2c5f7bc0f861edad9541e5522753cd3",
          "b32ac47c64b8ed0de23d1f243cf5835f05fea638e445e5eb6f33756c32662945",
          "6151ab91b312eddb1fde9bc4d7290f62ba3273fc00f77852b24754923557f400",
          "b07f5bb5ecc96a414f928ddfc32a5fd0fc3330263b893dac042d5880706b6fcd",
          "39808971cf814d4640bb2223f7c6c5c8d22aed59da6a2cb48188ddc5005a36e9",
          "05b3a57a26fe5d8a10c1bd1dc0a3102a8b8ca5b110cbdddcfa6a0e6e5a49a73c",
          "347f3afe79f3869561c8eb7b9e75d9957fefe096e8cbc9d460a4d66f2e74f014",
          "20a1057c73397ca40d0aafcf08dc5543700d82f988dcb8db42cf1e320d1b90e8",
          "6f6c89b62ae9c9c2263d4fee7e83d725e04e1b78bcdb3076e3092325885abe0a",
          "75d1180e5a7544ae322b58cba342a1ccf63318a96403ee1ad1683dd99e5f489c",
          "f6bf32086bf17321db396e05aa9ef83057f9b65ebf0c33ebca3e3ff921b7958f",
          "16cdf2ade0a19e94e4f0713bb7b706a8f215700349c4fff5fd1e1fe52394f8b8",
          "4977cb74ec83acad91ccad11d3f678f4c87261c2aee613b150e57b42d83abbcc",
          "59877a28044d19a5507f1f987dda7306596c3da11602c041ac4d741336bc022e",
          "a668cba99f07749fa4cba196d90491f0b9b9a664b042700fe562a49cae9dacd1",
          "a9dfaf63ad38b62809267bdb31a682b9578ab2240c551db9e072efee99de6f00",
          "59532ace2a55e9d730b0b1cb3e4a7cd47c20e6b2592b340936a82b544ebbaded",
          "8a41bf41d16f95576a74e0546e14720feda870ab19ae80fd98a2ce5bc6da45d0",
          "b44ff6c26b81e00cbff62d62b697dfe4971015b7c73da598effc314ded5ac00f",
          "05a260c887e9c5e99deff794fe9a8b31a74b8c9c104265094c978e5140e3b982",
          "232b7009b0acd6b1bf3c6c6305e8c3adcd372b618db4acbb25ed3d7c907d33d9",
          "8907af9f84442e275450261c63044be09b5f53935e999ef317590ddd167cc383",
          "7a202010760a7c788443709eb4b41021748bc541aaf48bbb3abd520fa672d684",
          "d0ab812dfde93e86560c7e42da22c731252c2e77a0f804cdf81676c69d311421",
          "d8d08cced932a384ded94fba193f58d2af9b1b7c51538022e78c1c924dc66944",
          "fb70c0df159f818beb98b9458803ccbd4ed71697ea209966ac889b8c1e35cb44",
          "3b66f0c8eef83d1c4de5bc100f83c32d6e8251782021cc4a6d1ca07953a0fea5",
          "e72134acb3452be1ba7803aac401f6bb29738724419f67a72a5fc133d4e93378",
          "86bf9f293078d47ec4fc0e45fdb1cabed3169ae3c6c10f0b8ee467961e24f644",
          "6023803cee08ec97dc50a56454bcafd457b1db6e29a26ed0fcf96fa53e5a8be1",
          "06003283faa5bca48554e5074efa27032196ed5c33eb4319e6c584ecd2f97a2a",
          "5c5d20258fcbd643172333828c34f2c8f53082ae71194813834e0fe314078c99",
          "5c23a9668d8c2e19cf05cf504fa0be039664fe28388736e8f99cc5bda6683f02",
          "8e1103a19d5dcbb58a04d3ca6326fec8783dfbe67cf3c67261ab629f629448d9",
          "3777828b60af6754a0cfd7cffe560d4da83094b7a6d0b8427db606b4e29e96fa",
          "866c3ebdee9c1ee1c2afcd9820ff9c303b105ed0eb80eab469aa4366d05fa507",
          "68a23117c22d054c54ec0ef52ece3d7405e5503be0ca7d0c3f3769eac99180fd",
          "96ade0704d63a84d5a0fcfd2cb4f1a21f61337b5f00d702674fa66b76c043a0d",
          "e2931a16f246ff20ec4f8b4572c21ea71df08efc8ad83915dc1ba1f4dae6e332",
          "e7072707815ca4ccc1380b444ada1917e71be7c97d5f2cd954e1ec0d0bcd3296",
          "0acd1618b99cfd0ba60d1f51c251a55d295e6732ab1f060d925686ed7ac326f7",
          "76aab9b2080a2cfbb0c2114dd100c2016ee19a43c5b62de917c7a5d40a58dc06",
          "bbbfdf457fcd237c157a4520b1f12dbe591f8c9475ba6177f274ca3d15a241da",
          "2be4b19c28492443dbe7466d4d3cf597140e4bb7648e22fcf1b77c27bd0a914d",
          "865058a2be451638c3d78b3746d5e6df19cefc1f70281aaca8de5413795bd319",
          "c5bdb62fb8db3021f69bd43dcf8c2154e58190769e3636547d54329a8c0dc2a2",
          "ef6ccd9dfdbded130ecb0d1c9aedf4107927d0d9cb81f8121cae4d7aee6edd09",
          "89d1b05a40384b30b472766d8cf2c4a17e5b1aa6178c62ec6f1b213e461e5f65",
          "b8e18c97712754e31e1904b9f5cd3bb1ae09c766035fd2fff8eaf0da109cf740",
          "5cf1a4ff187695ad9777d573efcbf9411c254083a298b52a15a1636fd67d3522",
          "2b200a5838ae3a8d1d9b198e091b9373c42aca175c08e7d3648635e0b1928a56",
          "ed95eab2876895fa146a71e4b4c4b60991b19512324b44a7d0849bfb3f12c0f8",
          "ad2712555161b650ffea3a815d2cae85a641f1843cd8064d527432f38faa4fcd",
          "a453b6fcb600461b6956794143dbc6618f9d3bffb8cb8e3fa0705b9d18c59c02",
          "298db7cd86a3343ce0f6b0937e50a20adda617e2730434505e6c5d13d0653d29",
          "d477af99642d879385466ad9bdd315c2a169c698a04e1e7c1dff9f17fd180469",
          "4e8c5031ddc93817bc4839ea340b421d7c2120ca9d8fc96edd2a1595182afaa0",
          "2e215ed97aa192a22dd9e8b366a16f2982a49f1d1fcfe173e402b7ff110b58b2",
          "eef15eaac991f440431b744dd027b5de09c696bb74204acbe95aa4b51b7634ed",
          "0335138224293b8b491ecaa85310c0b29d1a99c5006be08044ffcb59fafa21d2",
          "c68a9709b17f8d92988ad38cb39c8f6b6383f36d9533539ea22ae5009beab2d4",
          "41fa5f50177cc8f7e715bf9727e782d69b9ac7b50850cc3d7622b3694ad79cd5",
          "7ccc61d10244e4409c9e8e0eb4d8b41043cf0d761ebf7ac1e1884a7a55bfcb9d",
          "b56c7d1b8e5a9a69bf1001785cffd18a5bf921343775a42e561b1302b61206b6",
          "d885fcc30abae6181941df73f76434ea20fb2dec08b6df3637d3d5aedb1b4413",
          "ace026aac2540f3f138dfca5154e60343c0da363493825875df4e18bb87104b4",
          "1bb404f298ddfaa4bb5bff954ff6fe946130aaa38a08821611d68a6a7186983f",
          "de92053d53222201c218eab787f551f13c0fe613d194eac9d404fbec217bf5bf",
          "7ec990087e5c438baea66e03b43908b50abc94eaba06fcb61e781a5abcd61282",
          "b07c2b2fd13e046f235239f203d631f261c37d23db6453d5984ba38e429c6eae",
          "9c069c46f0cd0941a86b918efd5c43cb4b57a1bcb8b29fdac3a6b9df9cedd782",
          "f284efccb31a88d53dfe15967ab41ba883e9b0037b998763f98fac487c13c3b9",
          "1a6ad9d1691d878e294c1e4d8dfabd578e9749009f9659d31f8fbbef1b777246",
          "d2f692948bd411dfa676e7fdd693b23f24ca34886702634f26ea3e2e4d1bad22",
          "e395c9347abbee6b721710d7b75b8d8a0c6cdc2577c7237c7c39b76df25e76fb",
          "279b435dd53a3a548bca5f96aa262724b9148d6e39c5963949d73d79caf711e5",
          "52fb23c222a9b7ea1363ba153f9edc3e4a00d75636abd654b761f26c8d5b1294",
          "a5f449b1b0bd9c0e2c00c8ba1e6d4ca0da8b0d885b1580774678d91074ac2bdd",
          "0dddee1ec7d62d0b2377cf55db48132264c85ce0d7cb075a2dd16f07ec50bc0a",
          "7978a012f889c605722e900673f977c0db54c65b7c527743cfeddfd6944612a3",
          "881494e7add064a3f8e498a6fe129032e4c0d1604cde7190c7f9b78a232b4e63",
          "46a711586e1da60669913cec0cfc4051ba628aa0502c7461962b7ec83eb9aa06",
          "136f3010954447cb105fd8579387fee8a6e73d3174e33bd09b43d8102b93e734",
          "0e36b15f8e995fc60ca79ddd3b64a95de636d36e0bbce0d4f05ec2c95a96dc14",
          "2388b88d5e3d58b26d750e901e616602ad5eef2d06d9a52f9309cfa741652fa5",
          "3acd88c58b3fdde2c6d322b91394e9fce62dcc648eb1f771f3c9d31dc8048178",
          "8fc8c0f1a49df559ecbdf9c598753f57c1bf8140f703541fe08d6dd2c762a269",
          "767d6809454deb2f5ffa5ebaee568005665c8e56f831800c8601257fb146dd58",
          "f1b535af882774870d063be08cd44831f4988d6f7dc6fd0e78c8f46300c3a2c0",
          "bc4c63933ea88320e8c6a107814744050b56cb40fd7058e832f94cd31d3606e1",
          "b599bfb8978f5e4e21ce035693bce2b576f55d06c38f69ff28b25cb36e490c80",
          "a34527b465a0fd1812e72623f0a78445ba4c2973547af10c1fef200a0c650781",
          "2d134d3e1d6d7911d6f4f719dd19ef0b2331ae12415e4a2f125dd5595040e406",
          "cdbec0a4acf1b5988b9570bf292b31e138f107b941a945966c6da4ca375e5d73",
          "fc75931ff91aa76d2d12d4a48838b6e366e62d35420ee24a63ab41a3f07bbc36",
          "5fdc0811eb8609e02bb0287f7bd2a073c56439db6c685c581fd899bd59d2ac49",
          "97fe75c3a0445076c961dd45b398ec32491b26134b17ad015938b260041c463f",
          "24e60e7cefb5c66349514ab3a3ebe69e27283cdc7a02016503fefe360d29c068",
          "087871f883d32ffe4a6b8e6e32081685be49626fc4df6ef14c039ed189bbd425",
          "2393b0682b335d41ea8023fef05dab3e454c25607301b902ecb320cc83db1ea2",
          "15a8a5c6f5b1dae3edf7f202c99039c14cc29b5c9f15efb6ffacb83849885313",
          "caba81b6f3ee9d1be4fb3b4c76d05e0e50cfef9b843e89a525901e3da678c4bb",
          "fa5abae6b76d4f7ce9f43fdccfd716d84fa016f28a068021c05a102888564690",
          "a567d7ef8ec526254a49421b33abe10b3d48c4adfe4c4f0a5a1be9fdc5cd349a",
          "4a60e61707955146673e0910680429850c2227d2ea21b63091d283ee0e8a210b",
          "f9ff2894999afe527421449c8fd5bd8849173547252c6dad85ecc008c9becfbe",
          "b423d654e41c5f30fc5885bb80c3ee6caa9e4813b993cc955fbf0f33b3a53172",
          "7ef5f43723f8298821a0ce9451af6bce51a69ea58d63d04e6c954baa3c1f98b4",
          "53a25136234f8822afed060c228366070c92121c81ce2993ba3e1b104a76c441",
          "24a8eff03fc2404e2354264ef6e07c84eeffe2c454db86be00fd202f3894ec17",
          "9805d2faa783ae1a041fa17cad01b400cec55636384a4f42527b11ee11312a2a",
          "168238fd53a5242ec0d836c53e46257139afb259a95c9ca4d82cd3001067332d",
          "1360211497c3d6fc7857ac8bef9e8ec8055762e61a30859ff422839883c42719",
          "28a20de755e96993be383320268a9b28df49e4a147e9ae097c22d4546991f03d",
          "9ab30c0de7e509a6262e1d734107a93c533e036c76161ab0bf23f5c558b4c3ee",
          "707620744a4a405fc74f09767bc2656fbb12a5cf71f7bf3faa0608b202649d55",
          "7ea02b542c4ea9c0af3ce4df2962eed20b6de49f2899d8a113551f393cc2d23c",
          "2db1284cc9edf81cf67ef0782e3d3d0ca7dad3d1e80b558e329bc6d8de719395",
          "5e60afaf21538e78cceb879ab957e01d8d8315b2f6715bbc3cc3c8aca13001cc",
          "c2642fbba4bc9f48f10c92fd838c6a9a044964226e1d08264627a67570055a23",
          "177bdbf3f4db33fc21b51c1ed1afd48b2b9cef93f827072b3063926a38f2b57b",
          "2629eaa4dfcaac4e104fd46de0472687f84efcac3a3cd77d496b0492d2af9021",
          "bc072d97cad9af80b1dc8c76cac9e9e2d815a20975466f689af234136f7b786d",
          "720bed45b2156566ba85695bc1786543de2753ef2ef6fd5f42d9f6280c274c91",
          "1de51796c048f5ca4d292a81cd2b88222d615daa2ecbe49f41f0b447f49ba573",
          "add412815cd34089c42773af6ed2fba60380b14bb5621c37ef05023ed8bc3967",
          "71de7bb28f4c2ada8ec9a27bea052ec9a21958b323011915d366aa14d3de1f67",
          "32a641c99a26d0d4279d807e849d45760a13b3cf3bdafd4aebdb8f5eec070080",
          "534f99324ff8a923896a08e331bc0ecc03f0d9498d2835ba29cd15f9b6e8dd92",
          "690b5812809370121fef9a4470ed31f99f7af7a9a7a67d86f6a59def7930f09d",
          "aae8c2fce257778617406c8b0ddc51352ec479b3b2d6c3e4d7ffaf93549ce245",
          "9a94c803a37ff379f056e551de28f56a47824ce95f90a310395a60587b077d7f",
          "90ea32a2d28876174941d58901a97b741d68ca5a6f1b26caf86a9db72319b8df",
          "ccbb93faf7ed42bb2c7ade04d61112d14332da84b9f4233ec68059c223379ab3",
          "f7daecabeca5c6a2f9eb35750e2465eb053fe77e122b2746a45aaba866ba49eb",
          "6e0d0f1ee1d19e683176c884a09aaa10bcd1c77e64fd45b2db89794195f7ccce",
          "3fc1d75cc758a78f0f18c2cdd07f97bd5ee35a7fcdf5131f36db41add59b2193",
          "cad8a2b4c5ccc6cd215d2a24abdc87a2841b4a4de4a2682fbac00d80ea578507",
          "b4e72f660e84f0e231752e17e8711e3323de9345e968517c9622da6c6cb6678b",
          "067cf6aac8e9f158fda1ef04893e0cbee8c3c953671235271d6d7d92dddb1067",
          "795a78411c6ee2e3ac95c17df2403bb0bb9b760617691a253fe197da45ebe2dd",
          "f187e6494abd44a9cc48057e8e3e2af19154cfdb181eed19831726670123dcaa",
          "d3d4c51e321d87546862af4cc7f93eaae59d28bd4adacc79afe6c9af6ce96eba",
          "824c2c99d004503f5f3815142d0276bcd93e424c861fc2f5cde48b022ae67bb2",
          "3110439e570bbded81681156671ebeddf4f754478715cb76a1e66f8434010a89",
          "cbdaffc200cb6e48ee8868888df4427b81924ea774cc3935a94c7c96d6d96f54",
          "252c68ce691027f94b463355653200e6cbbca5581766040e5fd7c7a4d491f616",
          "7af2c5ffcd452538f14265fc4f0fd4943ec74f7968590dad8add6cb5077cc965",
          "60b3ccb9711afcf51b893132befb3099b74312cc2dccd6f3faaab1ab141995f3",
          "8ed2ed5db2ebe5a0f9bba13a3bb47aebdbfd9b8147ab1d5f5d445b9e1d647ae7",
          "a28f6618d67635ac86300d9b41803229bad04425a0fa8c0fdbe0af9aaaa34d74",
          "17ba65dcad7a1cdcbc24e85d4ec99256c6fa745d34442924a2e101129977884f",
          "15cd66acda1d928d2c7b3f82827bd84a5772599f3ef1114aa6f37387e8c6809d",
          "51c343d0b62140f45d250e9233397893b8856fc5b0b7eb3e980029210e885072",
          "0a14084433bb1a034bb6af06a23eab6df63e19aa84bb1049de69e1aec8d35e04",
          "a09922a0e5a658e6339783cbc3afa1bf9886a4b117ea5af129e27dc97f948142",
          "fe5b919bb69d1e0ff6f1dec642ed2535ecc1ebf151d7654798c295e9b5f6aa07",
          "7a8b066bb3cf7fe40980f745fa34592c44b2d8559c938cd277760964ca67f0e8",
          "a0c1d7c6e0ad342337f5f6f1e226b3e2a860002c87a62e156be36c661c542914",
          "a309f9d8fd9a0a977f9cf5112681acc42f08cd0bfb71ef0d5ebbba83a157bfe3",
          "04560ce0678f310e31f6d21c63e75316b0cffe484fbaaab3821741d4a37de659",
          "73ce5dcb6c17f3760ef749147a8e7e2efab428df21bfa5a61aaa7b55bcf295a3",
          "887d2ec9356eefb53840e9165acc1fab8a375edaf334c1c438abddcce9e005d5",
          "84f0208ad3e6d4e0fee561d31be5d22d68174c56886abbe9d3d868457404ddb5",
          "18c6513d3538c163824d2333f394de6449d1924db9c01d2f0ea85b58a3019cd9",
          "42cf4751b3f22e75acbe677344cda6dff6dd122deacacf4b3c5ef6ea499bf6fb",
          "cbbc9f4e4016707f3f5cf2d96b0a168819b8fe5f5354a08cafa649fed12a69f5",
          "78802346e795a5634566066cda70e3e36460c32f741c7a2c649cbecae36b3ebe",
          "cb9f44ac73427a40234ebc2d06d3ecea4cac69de2f1266c3fc535f6e837a7a68",
          "89764ad6d10f2c1713220fd3e3bc7e433940bb857a3f20bf349dc455af5dd29e",
          "405199b85d1ef73c8ef405a49731c69a906ceac083a2a9ddc4bb3258573ec149",
          "b4ecb140bfc042009b0b7d427d66f70f20ba0fbd30234beacb2fb20f931ac728",
          "cb984286019ae4e5906a31931f5029d9238b27561d0cc7c8e0bb0e778731e97d",
          "1b88fc7234a7c8ea897fa428f586dd17dd405a4ddc573ee27984b81688785305",
          "fd4012511cde1c873d0ba2ef90cac8f244c676c3298cb3d068fd90dcfcc211a6",
          "bcbc95d1e3d0a450d4f2c2905fe668bd630926faf0ac72c80c81c62e4d2bc673",
          "475f2b95ba59337071411eb4ff5e829f9546e9de4b5116d60153b3140c0be005",
          "48552b58d83b2a419b7728ddc74782e6364113fd8936f46d779db5847408a4cc",
          "ca54d76bc1c16b5252057a8f6879a3d03255722d53294b27134d434166249c39",
          "e26d9225cec502058e8b1a0c3db4c242603f6e0ac07f932d004fcbe231b9b8bf",
          "e17145f375b0d4ef8a50f91f8decd376a1ba9189d6a8987dc9d09e475bb7b627",
          "a1ab885444d95cc5fbfc76065673a699fed39a69db74d0e5a744ccaf1992472b",
          "3dbcf0a9bd341ffe7ddf021e778c70baec4ca6946e8a7174246c96f346916d35",
          "34ba8ccb3aa5ddfec0067b9e50d0e79f0c602a68862038365c936fd39523716f",
          "06e1181265d4649c8fa327b45d9e06cbf21e1b09448aa6e2dca83d1a309db053",
          "acaae4f93117804fe339596e9b86a9238fbd05e36cecabeff008e48987b489af",
          "a539b2934681c4d28d7d61fa6d837ce65cbed2568be6258af9c5d5e5da55031f",
          "4779ce3478a386eaa3c74c71bb9c3a11a42250e5de61c4aeeebf70f391f7dcf3",
          "e6c9285e092ee1d5fb990f22f8c19d31794b72ec33c8c979ad7ee93917c749ef",
          "873ccb434ce7abc94125986bb44a8f5f40d970672fff042c0562c217ec3362ca",
          "8dbbc54ad684506e9ae2b16c611cf51752134e8a0363096fd7d3e18df43c3c54",
          "00517c7e929bc3b397f3936466e6b7074e6305638c9d52812156240c0167a031"
       >>,
       "100369d989859a9b74211d1b577eebdf6ca34a2c15f878f0e4b4dd78c430e40db12/01/2018{\"amount\":2}",
       1,
       <<
          "8d0dc54500eb57b7b461fb3954319bf8f06804f357e499d95ea71704c3d89900",
          "152acd77998a53f98189a6d6f278fec7f2bd24614e509d588668a751eb167cbb",
          "662c05d107a7f1ed4e61165740b25dfc074137f797bf392c2194d37fd1ac3324",
          "84be77b3c178e9a47d04bd44576a16730005b3d1b3d195a3355d6339c8610091",
          "a89b2440ad716b0392e638d1a3402a1a05a4dc386024e3e9c76bd248212c7004",
          "42e37719f4f8f4f1c68158a937989527ee0c4bdab3047d0942bcf2c042b30404",
          "14a985dd08872d588694d021d1f9cb0cd19b1160e5fa7b97db24da11aa8bc7a1",
          "1195b05278b67f8ec5294bcf17b703ae56ede47e193c71895cecc6794e25c601",
          "70912d224a30d3b7ac58ca901746a97cbb44261ac3d991f6214576affda3ab6f",
          "c2758addd49fbe6f6faba5133ff76787cf33f999f049b8d3557cf87fdf0198da",
          "82bfe96ac72fd09a304203bd8febbd7a1a934ab5296991886ab77b700b2da8b2",
          "2f574b20a2f2057fe64074c05611a381d5947c152c3a774a3fdf97d56957182e"
       >>,
       "100369d989859a9b74211d1b577eebdf6ca34a2c15f878f0e4b4dd78c430e40db12/01/2018{\"amount\":4}",
       1,
       <<
          "5903dbbfcdf62e1ee89d9027ed81138cf018a568bf3a3292595c05861c1362ba",
          "e015ce3294cb80ed085e9b5370748a8881ff65872d9ef42949c4a5f70177aa11",
          "bf4be4ea7231ee95fee021d75aca597becd0b6b2241b71e2ae18260cc02805d7",
          "6744ef957199659d58e6c25ac6c9e2a6c186f732045d1585487d6d787b08c30e",
          "85b46b8541f9d5a4b8eea72887cde20262cebdd968dec2c768230f1f88fcae21",
          "6443c9383efc61e001e3ea39015576bdacafe0ef00a6f288021d246d2679f232",
          "b2320d06d512983606f9e752f4fb8297ebd386f61c3d2806edc56a2723f22fd3",
          "e5b8bd080a40b1f9253c7eed27d59e7401d94558c4b836d12597bc1d2ec0ea39",
          "8938f635852555ff34bdd088465059b58442784b23b4ef369075debb93df6ecb",
          "3beefadbb04f133c01e32f17a9ea6f300fbaba75eee9608ead410c5c1437e5a7",
          "3c5187ffa9798f680bef70e56c27cec25531778a2696d9fe6d3e0a046fc7a9eb",
          "a3ff4b2a8a2ef2a5e1e0bd890a38faabe69f65c23fe9283fe7617d2904be4cb1",
          "0e72694a287d77b4caf6920dfd8a5b2a2f1b34c0e1443733b98a639687a14515",
          "e67f01834787d487d80770476e861bfddc2a40ec7571da9d46926a67a8383680",
          "540df767167836782203a332f8ea8449959c7e79dedeccd76dcb1f1277442130",
          "24f9f212fff0021bb846a45ad09cf2d5b09734a0f0a56e360b602bf8c3b42635",
          "5d8f419a6755b41f31be04099fc28ae939e9001fcdbb445285a88fa3715f609d",
          "7e09eac93f0bf40f30df3f855032f1d2693c5fc1439b705c6b6a3cf9bcad1668",
          "636eb1a5f496c2ffb2f55a2dedbfa6327724968db7c97fe57d937b508aed503b",
          "606dea61c302b6f5d5a053df898d9872d6a674899a055d8067dbda61d8b2d15d",
          "1c0fd0e0220b2901cd9ce67adf665b42efaea4a567615f94decd4600dbb99c51",
          "3251ea45cfb529971b17b1e0726ae581c5c6ae44def6aa2997226260dab2c76d",
          "a680a0bf3fbca3881a55821b418cbc510ea62a99c201499ca87ed6a97badebca",
          "62bdc66636dc74720030594ebcbc1f1771efb6f1c7b78bc3e631cc2ef3ea937b",
          "dd15cdd405bc042aceeeb82dc5fa6e002bbac5ff906dcc91397eb5a116bbd778",
          "30b16982cb32ed2d7ed828ea69cf41b6a8be5018a2b79437294fcaabbc667eab",
          "7d8e02ce9a94df314349670b00726a77e202096a895993fcb3b368e896cc89c3",
          "004ccbbfe2897aa41b521b66a173bfe312a048e30ef1bd345867e7c2c49a6e5d"
       >>,
       "100517c7e929bc3b397f3936466e6b7074e6305638c9d52812156240c0167a03112/01/2018{\"amount\":4}",
       1,
       <<
          "8c7b220a67b3e2e497889bc8f230ad35f60d91e642f0463284ebdd2ebf9449c3",
          "db96ce8e3d405f4c5c46b72d8d72ea640224e8bdd496a6774d0571c5c0c34309",
          "a678dafbb3010d9a5060e0721d50aeffe1607483638ba497b78e5e5c0b8390d4",
          "5b3ee2ca837b0cd724567e22f4dd48ed8a44d6a142898ee46686216d8cd3f263",
          "6a80285197a42c14948517ec48bff753fa6bbcca2d16d9f8c6f14a6e7acb77d5",
          "acf1d0cb9384e71c4df75b5080d8e05c00ebdd1b31c26504936b9777c39c82ca",
          "94a17a52c28bccf29c79721785d5d90931e23fa4dfa1f33382930392a0ea1123",
          "6616fbddbe81cc455984098d80fde4b9acc840531f0ef8502d3dc30f26183d69",
          "882759f16d7ea90d5688b7fba714e6ef71e3ae5d0559ee3e1296e7e225895188",
          "0dee99134eb1fa88f56eac3a0dfd7d24ff2924c6917cae30aa0a167ed9a0914e",
          "66ee6e37b1e4c528406d780033c0bdb983b38940c9030a2658616df2451e365b",
          "bbf5379cb24c761726dd92c7f9cebdc9eecded56576f31e71305c1ddfa542a6c",
          "1704ff9c01bb0c4aedf37f5e1525d502b80258c11d57131b06d7ab15a323e0f4",
          "1fee8dab9581bbdd146da0ab77c446574209cb971f44069dfcb17b83a9b6c287",
          "0875a007ff80545b5d9616c39b6450f4966023257840612e19904f0fc03005d1",
          "49e8b1c8ce16a0aab81e02ee9a610e7773ee58f64673c844798f08a315721828",
          "7e156da18b6f4638d3bfc1a3e4aeca6b816c1c6ac4e5e4f36f71c2f8c495a131",
          "bb8dff2301ef1fae48d845f38333686a0f98d1186badc56a5bcb505c76b6090c",
          "ed8e615d3ec8bbaed1a5fd80e6051b53afea54301d8bd5b13537168308b45514",
          "1831e9dca6964221de7fd9e38c66268b5649e9a52d93c9d269f98f7a5ec93588",
          "3247d297230cd819ee69d52eab0e5317d7f7646564ae4cef8ea23d6f172dead0",
          "65058388fa889c3086e7de9767046f3261136957539702ae529c8ae38f68b8ae",
          "855a42907efe958ee1f6242e717e770e6b8bcf8fa39c71fb69df6a619f9b8beb",
          "1f5e4e2992c21d40ec20265ea89ebbf4656964fe7e3338b1b72e70fc0bbf37d0",
          "8f854387307d8b4d5566e8994b9191616a44e85712f041d725cbb9adb835deab",
          "71f22b69f9de1431bd3a35e5665e17939a4736995557f4ffeb3bb4c46e4cae81",
          "d78a53243d67ea7985845d76028352a167c1465d1f99f91b69d26c29ec27a3b1",
          "09d98fd47f817445fcdfa579d4394db791445843254cb0a0ccc5707a1f21086c",
          "ec3da118adca99ee0d5587abadc9e4fabf156460677db3b827d0e8dbe83b11b7",
          "45d00f1f78098205b98a2fc757771ed3cd1377053ad21244ecd343f2c8540e71",
          "6aa1005addce5cb058835dcb5c9bad558ba2be0ce24ef6c2bcda55e1ff680aef",
          "eca255d845531525af5dfe77a476ad76a96ab2df593008d96fd51bb1842c6b59",
          "e50c91bad729b5a2a6b5b3562a7d803fdee4c5ad86db50ab59c2163dd6495a31",
          "8742328e4afba180fdc3916551c6deb3ab6af7e30f6f4d3d2200bd301e133a62",
          "383028b125eaee6da41d94b51f56cf793b3222ca6cfd563ba0c4a778fdfd5c4f",
          "06d850d374a108a83bea3a72e20a995550721d9bea26808bd09d21ab088cf07d",
          "6f1ad8cfb61609c5915c70f3fc00c1fd72d2d57244c2bb36a20c1691a3d6c1f4",
          "2e86a93cb1c0f77bf70cd0588077514b17b652ea2ac63631ac593fe604c8cb4a",
          "7ca4c24ab37e707d40c1d89af14ecd21c259a9a3d238f29c0945111da23d4955",
          "a7c0365190bd4e32e467323489ed37a04541145f30263a1e5bd4ae1f7818102d",
          "e7c3fdb1764ffad925f516291d07fd4507ae288648317274a92ed76bc2293f7e",
          "7ef718fef978d729c04524d8665d311ec785316f41a3e11b8f7eb73d7dcca161",
          "d3007875281189035a6142891672051bef448d60032b174f617982466925e713",
          "b9381b49fc6bfd60d420f55d7ab8b898872d394ebe26cacb93597f73c27bc16b",
          "c9add1e2e5600fffc8b6aa9b3826f531cd93f5e8b0a8da4b4cacadfe5c00d13c",
          "5aa8a5c13392c79096be37770f67a657106b78998037503141dd2c7c90e430e4",
          "99563b21333179d3d6d96cad5f80d265196623cb1382c5faf1c82b857d0d8a6b",
          "976ed5a1ea4a716c4531acfcbc624cbad7b59ebdedddeb529242d15a2e94fb0b",
          "9d0c349eac389a567a8a55baaff0a1eec76a5a071244e1861cfdf53863d6ae10",
          "eb051a675b4b33cbc59ae00fe946f38df0f88ed5877a20d9d3a5bdf07e596eaa",
          "d78b7be1f1663e667f2760c6c4007c6259d6da3a7ded772321ef3fd2174a1035",
          "62b4301e3869b3750ae740d6f4e690d53da1646392c99636bc4810c395cd3e79",
          "098a1df187f3e4e09e3dad0e026334698d09b8b631dbbbc05ec2201ecda1fbe4",
          "1a9ee2bcfbd3ef4715e61cbdf28dafe86679efaff9f94311bd007b9372a4f73f",
          "d3e920184086ddc5eedb34e97ae95f822e14b0f6af0a789c755269357bb74947",
          "7c9b057ab5969dc1422c15f82e29444a69fbbf0c192f9798a1070a34eb970ac5",
          "8aea2541322ddfd8d1e6350884aac41d691ce95627518eca8fe157bfc898033c",
          "9011b5d2b17a6f0c31e186b0bcb13d1d4be27c01b41b2bd12eca732ef1d3f11b",
          "b0c5d7ece368d482c18cfc1b1e675dfc1ec7170619715b1521042853ac5966e1",
          "b4c19ef488b5da7570184e928a6c8c13abec7044ee6d6e44da75ad709f6fffb8",
          "33ecc2b92ffbddfd1b007d1e2ac23f737fe18d71d2152c481626331b02937683",
          "6ca8583ebc8c7b15a9a590b352689cff0645e3a8666068ed2f3e1a69acdfc05b",
          "1e365ecff528af5643c89126dfbe77e9c9d1d32f23ec1943a732a7ac77c44613",
          "e07b8a63dee8674b0bf122698e0ffcccf7a61555f46e5122858458a3b0902323",
          "6e2fbbdd53be9e5dd755df683f5c92fe69a50a77ee9aab7778a51519b5f6711a",
          "897f03f412b7ee8740bcf1bd300b33a2545637ff43ca89887aee1c3c57e6a425",
          "1271fa92cdf8f7bebdb5f94e4bbe0e74f4f3176572208d1498a4f1f7b7ceac47",
          "de0a15dd6c83f00f0db9026662b843907a446ec251c7fcea330f6dca4e015184",
          "d4e067ef53760020e6017cfa7d442d33a8a8a7dbe54285636bbf74c231ac73c3",
          "52e598246b09d1f4d5c19a22f879439c7fb6837258738cc0118440d9e5d2d124",
          "e081701e1f47093c5bfa8c46835eda0191897c5b43c14d3ed36a930c6af9a50e",
          "24c71272e945b1f6cba465ffefc485a489a4d1b2e6d985a96d067993c441dc44",
          "758a1164522d20ba648a82c39bb532b0ca078fcf134422bfb653fd8cc8f25740",
          "b540d87c870dbc820bff17e20b5da1115f596b600bee051cc730946d560db0bb",
          "d62bfe25a980050b4634b625f0f7a1a1a78571505815892d3fedb8659dec85ed",
          "90a0d04699fc22bfe8af2294b22925513b9cdce77fb7fd48beeef49878b3e4dc",
          "6f9a81ab3e70a6bb418b49c1a8084a98681051d41e42fa1c4edb0bce1d4093bd",
          "68ec48878ccb36a3bb378891e2fdff50729d786181bc42d1bd6df14a04a87e89",
          "d6764826efc86992a745a9b07d079b1dafff45283791e1ec220ceadc26ae928f",
          "e32bb253a3e659dfbe822aba3ef1d8a739cb67f93d455992a0692a12fe4bea0c",
          "dee11c5c1d350593e5e216ada1d7e0daa33b45c8a206196df3d84bc3684b1847",
          "5e1856ffcc857ae35488a0134d058a4916e0a8defa396c1f1309d94f7cdb64a8",
          "42672f1b0e8b390ac0972f2d879dd907c2d7c9c867ae1f710c127e9a90f7f21f",
          "881f66aad98f24e1e7ca5765af3962c2a10d734374101bd8a97314c7a1100e5e",
          "f7ce5a55b2fee927164c7f955ff25aa8654ef52b72667a70e3f34086581ad7e9",
          "fc63bf58121177749fc1f517792246f7fdbe7957e67782cb760f48e18059d034",
          "5d05fa102e97570c8acf543e27037fea95c61fbac73cfe148c4988d270e194f6",
          "8ac4704f88bb213e76cc1353c2db4b46d3d931ae8968ade8981d281da9b9f145",
          "54217f9b71ebb8fc6a6d83ed7a8d15974bc99d3c738f47f169caf3e6e471f95b",
          "ff237ad223592e38e30976123103bbc0757e2cb41dde0c8a884c693b8ae341da",
          "0be6340c83b740be68c27d164c1e835eb97d9af62172df2dcf7c877ba00ccdb0",
          "ead100d16f18ac6b700c1a904f3591431d8528d3f8795c0e54722088c164547a",
          "8e7846c306e28529359c0c464e9cfeb0c3acfd5943f05c452b37376f726ca0d9",
          "42f45358835a6ae1b139b54121a6e2b769e2aa9d37fa66fb0b60bcfd23a42eb1",
          "7f89057c9528f4d2d077ae345aa2e9a07498ca823b2469c21dbed33cbc314691",
          "b6e2e40e9bac900438fa3f7b28ccdcc2621463598ad61a9579e3e03acdb96917",
          "0e827d0442b67a59a0a744e2b9f2b69cbc11e3f22c8b39d264ffafc2f000a4c5",
          "d0786d3b7d9c788a0ef479d6d3b813655c0c8ab3701fdc2f280a768986647a3f",
          "14f87a30de395c6a6047a3a3a2c496776a5584151b7e837ee1a7fed387a88478",
          "b6bc46e669aa7959717cef1d0e35aa47bcda8340f3d7e30bcb81c1ae9ea78f42",
          "66fd0b5d5a63a5126e04eb8f0999c75333b543bbafb659ecae4c6a5c65949c07",
          "e102e55a53fb9f857f132731e4601e3f1e1e93a5746a9ec92a4b363266b9e66f",
          "980fc916da78fcc0fa8dfe05ea18adae1ce61c87f96771f289ae5e3519901d8e",
          "f5fd3d4d3535c2bec0d32898658a0a457143f2f3ccc3c6bbb7fe1e4a86ca0b39",
          "744e680a838d90b198d285ae609371019e1d6ac55fbdf79502236da2ae32245d",
          "65d129821f905d16abb0a6a6876d6652da1b77771e20cca2bc3e7fca6b975991",
          "6bebacae9cc76faf30f708357c89825ddc4e0e25b3cf19ce87a1018173602989",
          "734c3308f17dc47552e7d3dafd15159111f5465036b14fe78f19324d7f208cc2",
          "535f7fe7c6d55820ebae6d2cf0eb1518fc29e272e976cf18ae211a3877fa12ca",
          "dc629c22a5b100498f6c5068b9eff6f1a8a0eb05f6c58d787f7cf6a78466f032",
          "a1edfb48862841ff677112f3cda04293d6d4936696f9332e30b0d50cf5d6d9e9",
          "991860e0978ef790b4a2359d49e1801085c527e11171ea8f7ba91b23c52df615",
          "fb0af8ab471e4e4b1b8de1404aabce2adc42d8c7d91ed90687c78d6c03fb6594",
          "e6ce784442882f1caf28cf4612ff96e42bab8913f7d61a5b8604a48991dbcb91",
          "71d5250ba63392f254b3c77d1694a4f4e24208203aa9c60a04e925b44e8b679f",
          "b9bde0f398c9e4dc6428b5b8a84c4f1d3d0a53360c7d61e0fbe188fe88a65c92",
          "a9ec7d0d99ccea5de65b920327e7d4882bbba3024297643ff0b8fce4601705c8",
          "deb88c4cb7d7035eb88b8c38b5c9306b185c782347a39fa1db0fde5fbbd06b56",
          "a9492dafc2d2187cee683409e515428985a14236886c14a69c9969fa87859a01",
          "96934c6c3b303686b0b5cb142fe894efd9a4979ffdc35682b7d6087347a59026",
          "067f9a5f80c4e55d4fe6bf51a706e94516ac108c198c518823d29687eae7d597",
          "ffdf4439212d236b9587e1a7f1f366e04ad8024a331e3742cb7f2bf7c6a86ab8",
          "6c3e25d7b2fedf9151f38727cdb0aea5b3d50bdd2fdede1cd4c98cb312d382de",
          "7c5aaea52e93915fffc1113b9f19935ad2da53951a95fc049cd5df5c6b1ae171",
          "bb3732c1db7117fc22559ab8a09fa521a02cd4e9e5900364ebbad13187fc12f6",
          "77e3e5079b935cafca04cc2a6a1f5241d708c2231d7a31e558f1dadb8b8a67de",
          "2aeff8185690ac7d0aa09714639b156992775eb54bb184ad7df47ee740192a84",
          "6092c8323e5f8ea26ced4bb3e9ba6f4473ce83fbadc9d143bf28576cd68dc8af",
          "24ee5d890ba30ba7dc4da484f8802facbe13953e5f4d8a1885282d895bd21ef7",
          "aa10c104069efd5915ce122f800a0aa17162b2d6471ceab1eb4aa31b3d39089c",
          "61ccb985a684373a7841710597ba582e4488b200cc00f2232818b15cee481a3a",
          "3c7a0160fe2f422f0e694837d11642e61abe6e6b0bac25ba814f319a709c8a3e",
          "cbcbb685a4dbcdb174db684d4955a618fd945bb40274fa1be16f615606eda4ea",
          "6018d3f38de7ab5e85e0819e543f547fa344f90ab0ab4527c36c2f1cec176c00",
          "b631dc2a0a7ea7c8ab1623c2e76c1cf8352620292849a6e6d139c1e21ee5476e",
          "bcd4a02b71074eddbba728eb331b21c6ef460f6b42f5b45518dbb80828b3d018",
          "003fa4207c012f231dc128e81fd69f830a08c0c0eef1c1401cb9c043cb2dbe48"
       >>,
       "100b777cfeb92171f683b41f895a293c6360f66e831e2636d44e36d579e3608a012/01/2018{\"amount\":2}",
       1,
       <<
          "26f7f41cff45e63f3f2fc38458dc48709f3bfd6329665de64d70f50cdac94852",
          "7bf0354eee0b0a8a069879041586702ed536e782023485aaec1a3698c3d2d2cc",
          "65f0c949f64a212d2d0fc022a4f260bcbf02380e4567d9a65c7d94bd0ead5b57",
          "4093212522757c19c7737c218861a17b2ec57d3cc0a3799e7df23440df60a12b",
          "6c6b11bc0fb84a17e0e534904e069fc6f4f337c70fc600f4f1c95d122fefe088",
          "12284c64d75bcbd6f5444455c0fa669dc302fbaa5d7cb5006615f5e9c902fa2d",
          "cb7e934480f0956e3eaa893dae1074abb771fc5a5a3a58db0feb5240c30ffb55",
          "5570967a553ac006f8eed0146623bbdf4bd0c4b2bc8969ea3f23b3be0c069e2a",
          "ab88a0d970e770543912ca65e65cb39ecf6fec97fa3475e2fdfb1b1ddadadbc4",
          "5ebe9fae2be240345f13145e224a942f12840e124c7aed2356e41d516439be1a",
          "6306ec2139f6aa4b0c751a89f3967738e54d9e0d6c0ca2af86d46ce94b387d91",
          "1a8bc2b1390ca47236d1787bd538e7c2c6c156df487acc3b70baf7c1d0ed5047"
       >>,
       "100b777cfeb92171f683b41f895a293c6360f66e831e2636d44e36d579e3608a012/01/2018{\"amount\":4}",
       1,
       <<
          "376b17c6f953cadfe7c17753240490fd89106bbbce4abb88255cb7370317caa4",
          "e9c9aca146fd9ac4d0b25b178dff0c0cfbc862a958c65bd9f4ba15a33b2e5a3c",
          "90daa14572d829b0be96ad7796cafd3a7e85895d2f90baff36117a07586983fd",
          "8cd2ea273195e0dd9ad8896a53f59b4f0d8444520d9a949e80c18a2e6a59ccf3",
          "657b9c42da072a1c7701deaefb6be22f709400921c6be66306f5e549e200f2cf",
          "658a52fd3cdbca75ddf48080e51792134025aaf5d0bd895929c3b584bc5552ae",
          "aa65e2a308dd28a1695ea8a9809e9ec65ab59c7b91864649b1edb165f4969b39",
          "3392f08c0bc47006b784af3c4423fb6f89ac9756d0f0f0fb7b55406ce162e9db",
          "0c8ad60fe35d7b26c39a7766b4d6f3cc51205552c7456590e2f9b637c47981e5",
          "726ddb60913ffb807ed4cf5bc5fb364490f8b4bd9a817e5407671e1d35b08c10",
          "94e07acdb1abb68e30d389519909c8ff80ffb86b85c27894a3a3e9aa04a99284",
          "d5a31ddb6960d0a34d9bad48abd3275b6720d78cb0ecf62c85da2596f3f0729e",
          "dd75a695a428399e4e1b191b6b79660f3a3ce0b5c823325059a017bc4f7ef560",
          "79810d84cfc1bbf3b894a04d7a63aee805b9ad4ddf92219d69d2e1850ea84571",
          "dafa0a329eb9406063f4e99a4de3c8a88c8acc114165a6f54eb3951192381eec",
          "b3fbb6557d6a41cb4f6328d3e8a1a1af89331176e3ce68c16c548de9dec1c2da",
          "cad67ef64182f251bccaa34969795e60725911409e7b4ff78900c1861067bd02",
          "481c2b042f23fe611c6193441a67a01a332631d547d12bbf1c11e67c900b1136",
          "2f1eb82a05e9cf1f0fc41511b78f3b57aae3f3a5e52199300fcce3a97c74ed93",
          "6825b491171a8aa2e81ba293d4cbf0d4f75f5961b02bfde473a652813c2af947",
          "71f8b8e1a8884b0b425d13afe07c3842c117ac6e4cc6e64593e861fbe63d6ea4",
          "420fd595814346a561d8b4b9236ad75a5b073ffe59e4ac9dbda97d9c364520e6",
          "fcd70e379f43e0e34b144f57ef261ab3a2fc619570163f9d10061edc2e662a0e",
          "ff7da860e454857eb3ca9e77816ab177cc5e3f1a5c07e457c7dc48252f5bb7b1",
          "3feda0e2e17989ec8bdf78eb88b436824fdf9357e404a7f36e1ab99e3ba396b1",
          "974dd87d19ac295938186b6a05700637b5ecff34f92b6ad1050939ecf3f6ebcc",
          "1b81d68f8b40c6aca1647cf98e00d741d2807961f3b4f918d3c83dec76ca18ac",
          "1ab1c689d7af0682ee03cb065678ef8cfd05c442aeb55573f58177aadb33c82d",
          "b49db805af4aaabe9b4130f2ec5f0e8c814f3b9f4b53e6d66ea04d034e899230",
          "54a409e79a9901133d8780524fd41b6f773e01b60f4cf9209c2c2c4c58959028",
          "829945468c42dbeb6bf3a16cb9435dfd1c9c12eb2aad4b6c5741b327e5306ed0",
          "efbb5e0a1536758b5cf4bc71c39b9b9bb0789b6206c44025e98d974344f245d4",
          "55236aa2783481c60c86771a3522b8ff71f623ac88c1f63080b44a857e3bed97",
          "777e0459db5026422cf1bdbae6e6d79a2658a60e17da59f978800d795a318ea6",
          "a188d23d3af67003dc206250f22eb3aaa5dd46b17c68283d27117e278d2c15c1",
          "6f321028ac5f346d6584f38c999f120c3bce437675e75bbae94f6fb8c507bfed",
          "8c6e6b532f7a21eba88031df22c92d7c4a953fc6a29ad7765e384bedd2e90268",
          "ec76cce8aa57fb7802015a98c307bea0c377a87617d7e36f880359ae8143c6c9",
          "376416395b181206fc2680e2a538b38e3d2bcd2e944b34383b9f701f20f4c4ce",
          "36417aea7bc1c2525b7e995e95ff3666d281d28c0b7653788d4d29a08d62c671",
          "4ea08d67673372d24ad0fbd212d77cd3e295726befcfb649412c4f1355efe644",
          "a297c2a01a6807a68f197e220717cfcc00dc64cbaef8e9f7c0b0d9682df4e88f",
          "a23e35250946937b91863196e2198ba82f1085d44ffc55b5fb5e266f749c10bf",
          "6826cda79250ba9f14310b776e43188aa07bf5f68eeeafe85702cd77a22395f4",
          "bb21d3c7dfeffaa27e405cbdd17d5fdbecf4144d9139a63f1b5e0f4a07c5e6fb",
          "1a0716f439ce5fad204a33bddfa1beb1518c648c3709ab7964eb0d2f68dd1458",
          "5545965b54b16308a05d0371840d407f8d21f53c539469a33795340f265f061d",
          "147939cbd1c71cf9a021e86446e1aa98ebf0c9d065b00ea071d7e148d8fc2a51",
          "2e1b22aa030da7d0b50d19b8bb38143c0151445cb983e5bf46ed2d1b78577ecf",
          "49155260b498946d14006767e05480e361ad923d3a2140c0fb2a46b409c625e7",
          "d2fb25d1049638d488b3a0b5534b184d88586dcd2e31d6f3c25fbf484af7c4fa",
          "474196ad495d2395827d165d26a9ca9bd7397b06e74723b1f848665a1fdbde00",
          "b5d5053af7a4ff4bc50c82ecb9b962b0bae8ea0bd8bb9973799574723124c0f9",
          "26ffd9e1d36b9f6cf4afb4719a2f531d158c640a20c14f873956b904139551fc",
          "082e4b9395b2d1acf5ec4defd784ee561faa1b4456888e99df4f0521e270f4c5",
          "cdeac26a65095d3476edb27ab7d9b4c7f1d62c89a8f780eb6b629f1f6bd3242b",
          "1ede86edab5ca671a1c82d6f69214e9c5da97ac1e9a3b3dd342cbfe507ad1e3c",
          "9d8788cf8500fa681ee0bb1b48e3231ce33d3c4c8447bdcefc8dbf7ae11a7842",
          "15241838d23e89bf38880e12364828367865fb0701548103a783626915000ad5",
          "1c2f00d72b40ebc2c82355d95ca8521c26f2f4eca27f22f4f71499cd0f38caa3",
          "fb479441962cae77d3c994c024dc57a1e407726f8ff0bf56325218ddafe548a9",
          "9c1d1ad56a6c1bacd9a758c45937241c2fc9dfb83e4ca2bd4ec64140a98f1ef2",
          "33e6a03cf8bee3272ee2243539c16cf6efd5c6b4f180737b3027b2f084cd1943",
          "bdc2bc59a356b189a0c37a09c45d9e514cce90803f40ca6333ccd5dcd82a6ad2",
          "4ce7a10377eddb195b0599a3cfee6c05cd09edd4b8a4a5065ee37a34d7bd4d12",
          "0c6cb1104ac284e6dfef815b3a903abd88cc0f9175fabdb23720179bc256d05e",
          "bfe246504351b4264cfe6a5dad0964b75a011cdc6aabb53412f13c38ecfcffe2",
          "d5238e70dba708782d85e359a759122649222c3e5c3ebf2990f360ae9390b9fa",
          "efabc4455d15bd113d9b39a7b493686c5a00fb3e19e7b8753ae955900a0ee0fd",
          "d641db8f62900d0bb6d38862fcbb38e4b5db30ac5a152aa2eadfccb9004d934c",
          "96ae45db3f558f88e8fb3e1246a9a62a956bf9f6534430415272fad14ab14105",
          "8e1a62e226e3f1ae1b741fd7bb9af28356fe10c4c1538bd8d367567cc7672462",
          "3d993cc94457eb23d6746297b086a76be9dfb43bca94023e65ffdd8db3642153",
          "1936e5edf9d436203c35b57a7f6fd592f719faf75361a2a71b1a577a1474ddbb",
          "8b7112f0d63dc45f2bd4f8263cd094a9205fcca0d95ec3f2fe4333689b1fca07",
          "a772385e3399b5bccdbe9b897547977c046eda99e0c2686a3b155641004d611a",
          "80d47eef06bcfdccd85328e2fc8b76a55036b8ac8be1bef7faec4674bed527f6",
          "a9df3904ad9b060a6977d387cba68eeeedc0c49f886702366e4796947cfbcb37",
          "b7aba282c0c30bba60d2a74c30b81131187d5c06d698b7a40da064161a785303",
          "5170a1c43f141274f806a84f6ecd7b1bc26165cebe0c271348b6b31dbd5b03e5",
          "0184c8c084a2f42e9c9af393ced57cc4f805507822d08f953af9030457a237bd",
          "cd2db142320c0ddff59aca7916b6493f296266b7cd8d0bd2c22087e71a3aa649",
          "1f2f1754e2212e1a30a45b3b65aac0b17e25b5074b01ab99a17ca0b0a0352da7",
          "c19bba0af52010f6d33665c6ff5e571eff256fcab3d79b818bdc1b7ea55c5ddc",
          "a50df9738c7aef2b798877e3d263fa2297e72b0c0400ce04f7ad578cc362db6a",
          "ed1be856a48a5069cc6d252faebf6a453042fcbf8cc8642d60152ecc45b8170b",
          "2801dc92f364a738774915eee76872c0fe74726bc0cb8e3d4264513ca12e165c",
          "1e9af2a67c15aa8d8f66fa35913683a9d872d70155ddacff78b0be9a36980279",
          "893c9837fc30623e48fcce19947c5898f6b8e34a6f189c63a8bc47970016abbf",
          "af3a853eae05713e1b29b8cd482dd6836f3627e90cca7d569b4fa5ede79764d4",
          "804e84fe052779d45f92f116482c13e842ed36cd471842b94004c85ae8d41a60",
          "e8ae94dbf67571d47628555a2858c458a8b627b90e645a1c5a92834e0b1580b6",
          "7e884dbde70df448cfbcb57117ecc64ecd2d13c5ff74d7b17c4331ad51a056b4",
          "11f686dd70448670dfdb438fb6493b59a494319ca819393ffec94b4db2c8a7cf",
          "dc805a52869ae7cda01dfdc668a6d8de8d6db16bb616a26f566aaeaf78f999ed",
          "d0f4b3b53de04567ad0cf8d423191eaf90dcafdee530a59fa8c34a378f0378ab",
          "f2eb692c703017e20cf675591476728e85f13cd8f7b7f909c631fa0c1a1b6caa",
          "ce0259cce4894ef9b866ac73b367fc922586950854cfa37e9cabf623872b6090",
          "ea28ac20b158de10bef1594941b2a7bb3fd3bc932523c935ca9b09661ad8f05a",
          "6c3aa9a3cfc114942b656523ec7e5f230f42d19a3917b3dd9ddd080f6147b8c5",
          "09f89fc706e3bb81c3fda413630e2131354102da49a04a88890ee816545894c0",
          "f98c51bdebaf81cc69cafdb8e95bd93fc412a6e1cd0a7355e677de7b6bcbceb6",
          "5473162b91dd10d7fc563c7346e9d665fcb18a1e715beb07cd44126dc39792b8",
          "351e6c49b919044ce592b3f18ecbb5ae026541439ba5c246d60ef90c66f93fdd",
          "196ba1db31659ac5b9f9df41768e3b5227e94d8566d252610be7e467c0de440e",
          "ffcaabdff126f38a6f4397d9d0c400018bc5fb528e41df4c8e2d82c685801d38",
          "d9e0ade583eee3e68f90fd7a03278c5487c8bdccd42202851b864be8355281ef",
          "e8a61220364743ffe502746cdfc7f8d5df2888055966bc718925c98e3f2536d1",
          "69e054b4ea3df4081afe48ff40a2ac8b49b8fb298377ac67cfe8a160c2842541",
          "f428df7a7e745a77388e67732a22f509f9db8d96f8159e4bded9008867d67dbc",
          "2f1e78510c19446c613a4a89e26f77c8f8ded2179854b1874e7208429d850ac6",
          "927823fb585b3d368088a42c780074229ffe63522c54a29757839a6aee173509",
          "19db4db0fe46d39ffefeb2e30540379099cbf775a92ac47e124064eb01a206e3",
          "3339a03e6d7f23f4b29807bbd4d120875947232d522b2b2e0f62b19ddff8c6ce",
          "edd184e4b07ce518b6b825abbf4a24538f5ac6c6e0ee8cc897274949249d7846",
          "fc2584e4c5452a4b7d50ba7719474e16e45c5eb641722b24c1d9f94c6bed0c87",
          "368e289c580b72cb9c4b3279526c4de8f4c6e0cbc4c529cb4b64b870c61bc2dc",
          "94cd1909ef7c6f77bff9e1b8924c8ad1b88dc60ec5b51dedd2bc46bb178f6f65",
          "28ec739b2bd087d662b5fe1ee26a5ea08aeefd9959d808d55a4f4a12285a13be",
          "692c6640b1e556c7f3c145a11999ede2aa40efa20f9b7179f437ee095c8df6fc",
          "c622d6ca091a5c16b7197cf4ebbc9aabab7bd00b8e09418279bd741b35c02c79",
          "9982cb21e273541d070afd0056079d86e2baefda4935789007dce207a6414e26",
          "0289c36bb50db71af0401b6953cc123b1980f2fc534c792af0f618a0f8eb0d27",
          "3018a64c281e50d169cfe26ed06b830a870b362e534674289f38677ee78d7975",
          "5a7bfdee48e792666ab0656f021f4be1187e54fcd21739ef0df7606f81960b9e",
          "e7bf8ce6425c34049a4cf815214a0c6a2522fb393650435659f48ee8405f392f",
          "45649d07030ca505f6d48614f767643e0e5bd37f606e2f6e6fc195b981fab2ca",
          "8aab68626cedfd6e3a26dc0b21424b332b4a5aa8b98e028570fbc7405d003607",
          "d151dce14c92dcd4f99c59ad9f256d294102b22f72bd613ec3622fd3d1c8e027",
          "4bdf6ae4b05ee87fcf0852f200522bb6c2d393e9d69aa2810572038e2b33b901",
          "1ffd4583491d8f50533b2dd0bce844d5c095e27d33a4db30aa7aa42b8ca9ffa8",
          "bf2895059494a92fcfcf76b8e74928c7129cbf136ecd03db5c369bb1ff267dd3",
          "075d4bb72d17fc3c30782eb111f77b3b4184143fa4b82daf0e934cfaf89901b8",
          "a723b918e04832a2d00dedc556a30d64f869d244b20560248df2be89180ac7b3",
          "ea7640a65a3402868634c153c4480775eaf87d7318b1c1e09cf2414679b2329a",
          "0a2add16de92373f3774a41ca9db08f0503fe5fede266b17e7026422b81dc602",
          "a193b62dcb6ce49fcce62f1434b547a10e6cedbada74a6a4e1d7e51cfb36cbd6",
          "c93e03c7d1d4a1401b371de2f332461e9d55c5b203e3ca1dd34d8cde3725ffe3",
          "6963acbb1d5f97bc4ca5a6271ccb0fc1752d24dfeb50ce0975a36be44ee9f727",
          "1da3e91a9b28ec0b426f78d01fc00100ad4c900f224b897342dcf3feb930ccae",
          "8f727575996515dde73f724a060d71af94c6d9d83dd76240c1e4dce4a2c62af2",
          "b9eca4df1d6ff43bb3f104fccd8346cba5b6cacff1bcee312a06a4403806903b",
          "3a9052fea3d38615527e1ce2feb7d40f6b745a618309e8e96bdf736e4111035e",
          "964538f4b7dacf95390f617e60f54e58959468fe8a30bd12aa55601514125166",
          "24df8877fed01916108e2b24f7846b8dfe3561bf17ffb0108a38e759f0042856",
          "3aab0bd3aa114d0337e9d4987b2da882dd742fb9c69793c5cc29d51c0244a9d9",
          "980e4acc6efe3e2a5a0d8fcc22bbbfdffc2fffa84598dda5d6126bbe8d722bda",
          "0bfd729242e5d9ac6440c7fa02c17a7c887caa3075608d075a85dde999d0e36a",
          "49713fe5e207a799808aae97970f47f1e71f6892e222abe25c7e6332c18c6796",
          "5d62be9b33062ff6cbbc0eaa4fd4bc9cdcfe931ac04761c2a27057b18fbdfd37",
          "2600c8427613556348f1fc91ca52369d1c2c6aae1833208b16c35137630b7885",
          "18c92188785fccfa2e5f8105258011d1f928cc8c1251deb46fa6b19f649e8287",
          "889d61d86c1aaa3574d41484593add45ee955d547a0cef20d8ec42704d4f7d8f",
          "e2732f56ab679f35e9eef222c7f818e8c93ec36537e325b717b2d831334896f6",
          "a6a39359fdf3a428cfc5965ca11cea582a8f7ce7faa4cd2d839a439db584c3df",
          "d375797a2799d763e9d151bbfdc802d5b506a1c2486f82c8b338e905da316819",
          "f3ac358bb5333643889c0e51bd8e990ec5380985be6933a48e46b0fad8343df9",
          "e63eb4ddec7bc691d1d335dca125875fef6546280f876d836063b564899eec95",
          "4d760c1907eb185b5ca73e22f766ca2975485f2d066643f5fe5065f6206c200d",
          "e85c8eefd2be3341717837cc815521431f78a2d4fe1c988c878a35f3b6bd5e54",
          "99f4aa3b42cc2a3dcb35ef62389c6dd993056d3455cb3972f54a67aff2316a0a",
          "3e59af02f89d9cc5c2ff0b2fed937c69c9feb968777a48253ae171e936f97c7e",
          "0a09c8974a4a0b3a42fb08fd58e1bf919b97ea960a5e15e26ffdea5258886cbe",
          "2cdd5a56093e006d515e8b48bacd71e742efdf9de7131160ac79e6a4290a5a28",
          "db8191703ca2162e195c64d5c8b72df51825d576787175a276df877d3e99e9f3",
          "f41a686c5505de5550e5ef65926b67eb4f99b0fcb6fae831a49690defdfb5607",
          "1109983d5890bf68970b30ec866cb8107dd7d3d97f6068ac9ed00718caa11881",
          "6f2a7bcc6d29625973452e6ecdc549246ea9a1cb77daca8bc8cdf34ae4c23aa7",
          "c4f9e5529f96691d145d1cc4e683eca149049a4f9683c4e4499508161adc3372",
          "5017a48c67bed08219e767d4756f9fe65a293ce604385a649ff931f73f5d90e5",
          "a7cd355603100cf7cf687a209a2ff35778ea547e549c2e18be5ddd879945dd35",
          "6434087ad5fe4afcc9c233407c0d1661b3f6d93b4dcde4771601a45aae8547e0",
          "ecb322882bfb8ca08b7c9a1e1a8e8be3dfd61ae9f2445731c1276d1a1f57350d",
          "251356907d8fead9a6fa9202a77d7bf90f14ba105f484ea874af36801c47f5dd",
          "77679c9d920e9f14a85713a9bb11a4e15636c523bcf26accf2415b83002d2aae",
          "67da4032524a396e66168b9896b571b0d5da86456ae314041f151f603471feb9",
          "e382bdf5bf20211f552b7b73b137bc907a1d1021e5f4f0f1540e18733acde89d",
          "572120f6c2bcea01d725d63ff19afc9daf1b287feb6a721530b5d6a0f8896ba5",
          "bd3598fa43cc17c8f943f6ac24c630016e694098c5e169518acb4219d508e204",
          "d4f698ab3db5ced4b837f65287d9f612903e0db0732003f485e5213bf4855c36",
          "a39886d4affc04deb1c28319b718882c7a834152cdc7a370413b4500f09b7ff4",
          "7c85e0e5e643cbc73bed3ee0426f4bece08fa6d6380e31df3a6d7ce2bacd289e",
          "719d426c0047df64fa0340db956a1cd6e004118caad1397f9ac3bfe512af78db",
          "2ac2d77a2410e2f5e6a0d0d1440f043ca475392670217b343b11534d8f9113c5",
          "3199ecc02a45e84274aace3e9dad589e6d1168fd184352405a715183a3c7b3d8",
          "eb21a06bc3b355e588527ca4c2745b44e0fc4ec878bfe62baab923c30bbf4023",
          "8a5b9fcf0483a4edb9a4cad4969bfefc030d9ec5b11b16d4f74c93113f4bd2b6",
          "04117b635db8b95ff6682be18b54975842fd0bda7b937f94cd69757b6a9be12d",
          "ead852d1770b217e2414d69de221ebec907fbb2c77cc46bce9069127c21bd2ff",
          "1198b241f7ae7de046062dd90c5d6949fd66bfb57dd1c28d3e31dca4ef46c115",
          "5d9d1fb7bf9ea40bac50612891139233640c90ef55583c0a0775aec324100c5a",
          "06887b15d700d1e9769ee63b39903097e76fa2bb13713b26d35be58a48e3b836",
          "81125485e34f0debe127fc107e095c049b5229d0ce977f307b2f911edc21ebd6",
          "85dd29129d6cf2d86f7533034d9acd268a7e260812efa556c6b0c0952c90b3d7",
          "686969006a931b8e312f2e7366624e0052acdb90f9100eb820f1825094a6a756",
          "c51814a461c986caf929074fc2f996efda7dbad8f0d8595e58006bc0174b988c",
          "b8c546236fd64e513b6e6e5d1ed678b9bf7dba02e2a098189cf789904e1e592e",
          "88024baf3ee7604f964cf17a5f472c4bf4d2635a29e384330e011a30b17068fd",
          "8e238a44b9f709d45553e2094a80036384b7b53c8d290d3a54493d9703b1f0e5",
          "037072e8f44f572d4ef048127ab6228b1bc9baaa27f1d7142de5c83e1337a736",
          "8756aa3a447a190a6e8c7a58ddc26a4dae2c4c58b3518e5cca64d3f4468d88f9",
          "99b937800234ff9cdce4136c8cfb6a1d45a54f6115fcf0497e0a6574724ac174",
          "b69aabb03d6c3d97418c0e502cddc5699e8263fa4edcf221a59c4dd2687c09d8",
          "466d020a3a8388e8d85e6cdea66045210dfede95bf7626881afc7989a7c292ea",
          "484fe47a9ad535a67d132c7d5f07ee41cb910ed34a54900e8552a3f0eeb06ecd",
          "2964c7346d9e4efe614fa1095657afdb2acc29fb2763dc236bb325476481e0a1",
          "d920796dc5be6e6ba34d8b7bb07ed713bd152f37f809eede4555c3b941ed45bf",
          "50d029befb0c20d230af022b49ee12ce631ca6f10df8fd7e07079e4519d21b7a",
          "238965bf84d09a4fc7d6cf14c339ef0aca6d678e5459d0f00035451f7daf339f",
          "8273fdc62a77453ad3a66dbf980fc44ca8ca0e2b6faccc2a51fcdee0b6ea243c",
          "c66f8580faf02d9ba2d4096d12cc68da086f651a2bf5b2e15976bd748ecbb561",
          "78675fcefbe3de9f28aded50073fe2b1aafeda6854dfd97a96ee2fd81b137808",
          "0cb0b81f85768bafeb9f07ce0c1b477bed3456cd001bbc4fd7351ff643045e14",
          "7ad572824cf17c70f2577d3b01f2288256117bb73e8cca610a3b7a0522315efd",
          "888827b88c54a0c65946d4bc7c3785914f709d9e03cb16d8d87eceffa5e3e704",
          "b9694e4de1acc4ad7249d59ebef5fd37c2f6b9060ccee794705bb6b6f35dddb4",
          "c9b9e3625007c7b56b9438b1f2b211bb68ec374d9f59dcf5375e43357675e9f7",
          "dd4a06394364268d87c028ce0777a267d4ed03211387551347befcf9e9ea30e0",
          "82215725723254b283ab7b5640db95b4be7320ef3cf9bd49f092be36ee099888",
          "89d9dcbb60f084936ab887b1ed56d7b5d21abfccc974f97fbba0c1912ac69e46",
          "a4cdb7f93f659421ea96c1f1bfb12bf8b1ae14ada6fa14cd1ebea3aaf7f51970",
          "0a118669265c5125a4a90f7834486810f568302f3b3b61a6c187fad56daad9c4",
          "cc897bb033f77069b5fe459ab3ce976ff035df230e81a8898efd48cfbcba3ac1",
          "76a87dcebfa1f9c02f39bd612bb331e86777ab04ed29d0ad0a7a9012a953c1fc",
          "f922e43d35665af66fcc47d1eb815e18e4720082a26ede358843d6c61b07acd5",
          "7c3e0c499aab04db37f27967331094df4653fff74b90d60b7685d967afaee020",
          "cc1160071dd85e5eb0e793125e5f7a8bbb868d36982379ac8ff1f04ea8870bca",
          "d7c053dcbe6a1cb29c50e30656b97d7ac9fdafb3d0eb5c0ee3df419d5fd9f6bf",
          "9cf0243273dcb2463688c5960e9f0fce848aa4ce4046266fa711231d85c03d82",
          "21db93b845cabf117a7afee6978efa205138c9c8bb890a8e0ee7172b96cbd926",
          "f96877516cd5c68825e2d365cfe7bbd6e9abe13d8123476eaf5841bef182bac7",
          "4f0a2c4bed178d28eaedffd156b532dfdbed3ae2a67d3367ca2cae8919dda5d8",
          "392bfe3c6fa53daa1a0dc4dec18e3fe55d54a7bfaad2dfd23e0eff22d50b6c73",
          "617e6f0bea6a0dccc46aa59354bcacf2cfb900269a532bfb37c8cc50eb73b159",
          "aaa787a29f1157420308a4f4d8b4a07b532844c7ccfe2ab36ed79730a41c913a",
          "d7a157021dd4432904b5c406b56573788b1ab9a64998db9f8ba4bce2ffc0d166",
          "5125f80dbf70174062b8d0a679ff7c37f26e5e44c1e9ab42b9885ae1444ed1bc",
          "d903a1945f256e2384978b3caa8be80c00ab0b92871b1a13ab9f3de110075b61",
          "4cbd55b4c0ec76cc525d0de111a8c10b5b545475550d58a438a6b5f2022ed4e7",
          "03da3be8903821becadf0e155c98bc6d8043967d89aca5e0ae645e9fe7c16019",
          "f52433f1cbc4643cea1ba59267f6682b8d52e9433b29bebb51db3ec80d9b8453",
          "bfa81e11834b935f4228f83f33102685c1970d7def8b5e334d39b36522427dbf",
          "18fa08b398bcd2abb9598ee67d406f65fbd3e8be1a9a6624668a7fa401b313e7",
          "9b45bc9a4decb0e6fdb16a6baf061d04a9ce466df8b41f96106e060b4cdb0f9b",
          "87515cc6f932e4f6b353ece2c4bc361c38537385c93af41bd3ff27133bcdb74e",
          "cde26242181631266f4c7aed5a4dd379c8211da4968804be3cbb61a77edb163f",
          "ae7f9261d90341cc2f49a244bf51ef5137ffe141e73ba6776979ac66aa0d5ccd",
          "16502027219553491e748ec27a93f7ce58856cb604ba30fa8151bb448f0ba843",
          "078c6227125e1670820bc3aa4b0a51fb8d3fd557b26ae50b6e9ba3a2ffd38a7a",
          "99c1ba296b8073a470b04e8de275982e48d99e34a315a9e00d87f078bacead0b",
          "70fdff1334963fe72e15243215f7f4b7bd10d1067a0b68e7d8108ab8bc83875a",
          "83182dfd42930aa43f25bb05e0f44795a2b843dbc108dc35b8f084bdc34fe6b7",
          "924a20354b0e79084aae1ef42f2a3f213651aef72bfdf1357b14a0834f4485fd",
          "ca258bf93f047a716c01d889d0d6ce5cc77adf1be0ee47e4380695730be6f7e9",
          "306573aed46da940933359292ddc93a1798cad3bcf7e63094c16f7491fa40f69",
          "4ebac321d2c5c9f29344173aff96083d132cab1951e01e3c50bdc35821a4d2f8",
          "443d3f1aac4df567cc654985a3dfc81c608775c30c5e44369ce4e1d38cc2e0ae",
          "4816c3ec38ebc4d0c19d0dd8bf84cc1a76d1fdb0661bdb515f65f31a95027846",
          "76eea49bdd0c2430e02edeb13a0f0dcc53e45306386e62a4ebe72e6e61d3683a",
          "d1d81c175c4672bcf5b5a073d32ec76ccc33c02c2ae4b1f07e1876427718307e",
          "0771beabc42e276ec8879dbc70a4f4f92dbf0b805079272e6d8e0a8a61820a95",
          "c9c42cfa49d16a1a81a388d37056c7b8402db6eb6940b1d189a9090f82a48704",
          "07a1b833d7bfed399f1db161ae2f90a1cf32913b2692145593057986582670e8",
          "81bf9bc501b88f499dfe6309379d4c952246c4452ecd17e4923f80d354440216",
          "5e05072d3291fe2a4b9d4d9864cea6abe4623c80827c6986618155f4aef36bca",
          "50090efb7f5e29a2309f33e8ad7e2931c8da397197cbd3c70497bbe0e96d557a",
          "f89c327a5dc2b1399677902ec3d363f6a0e5c2f0350f67d26fbd1f0a0aabdfbd",
          "d6a3727b49bb63e64b13c3675688cfdae55431bd1d1b586258358652f61b0722",
          "7d310392985c467d52b8fe7e859219f1517243c333b69fb830185221ed83649d",
          "36ca29fb050869697e8196653346766dc6e83ea90b642ad5765e7d665a3ee53f",
          "fd4a430c39722429c9508af35033bda66ce6290e9fa275ea97e2997a7b8fdb34",
          "6c4d59361fc3427826307788dc59f5c21d437f3435e21ac8990c1847f84e7139",
          "b910f060264c01e9477275d99d03dbd4536b41a7479c2f0cc0b7fdaaf7452989",
          "82ef1f8474ee34cd44ba8ea0e8ac1bd7b2ef385ea1a12203c163a0acf6fe09ae",
          "389bb6dc946fc9bc9648745b9e56b0220519211a755428108dc3dd575f670179",
          "fa0bbfd45530b16ec85c2469d9db84e163d1bafe727c02b65f775c9d48ac9cba",
          "05541577a3516480d94982aec8ab5dece4c73e1467bb94ce195b8a964a6ad430",
          "643008a202e23acfea3e843908562a119db636399fa961f6122bd45d1c30d7fd",
          "8196044319ddaa63b5e090078eb3bc34500be77631192f2d795be37223a97e48",
          "35730b788a5d635d1e295a00e75545bfb7da03466679518bb4e4b089d5ecd52c",
          "f75be9625e54c915dda462b415a06c0843d3211ce8b308a661bc6364202efe85",
          "1f00c197da2d91f5f9112630f3318ccba3f04bef5e220eb526871c0a3ee2b987",
          "be4d980b11499971fb310fee14bcaa248811fd25e0ea3a1599e8d694d829bff0",
          "8ca221b7299ec2ba4101c24b9222f5d4a99a24f98fee05489f876a1e1eda29a6",
          "67635c1f2948bb3562460acbab95bc5db904c9a36724184b8b36e2d92a6ba3f8",
          "4b83814720707870a3eabeeb1fa9dd3866b96293b000fe5c69fd7b8deaa51281",
          "1126b36c9f7baba00e1e31db32882149caa1829bd9b491b4d255b37966103f98",
          "7d94444388891dfb1222cb433638cef95f39fcd92217bbbfa5b5e89b51ceec62",
          "acbbff707583d77553bb41d560fc2987f36dfa551bbf2fe0e945dcc7c89e3e78",
          "498ef040ea7410b78bce9f81a868d37b6c9f0d7c46e99002109a03c36af9beb3",
          "12922e9312d4d366f901f1f05581bbf6f70b727fb047c5db718aff8e4139501c",
          "3230b44ae324129b28af5a459e1ae0105b2535dec940d78bd21676bef11afb86",
          "ae6a4604144047dde8f1708bc2edc92be1d046193fcf68e76cae3dd1db60164d",
          "74fb831520ff84f1e751641b6d5b1417414982f1e82c545c409e475764b31e74",
          "27b3a23bf7d987da115de2055dbcb88c3c08a51233d80d5c897978cd5db2b13e",
          "8be98e079540b6841071295ed5bdcc6807dc0697848c1fad41c57ddcafed60a0",
          "eeabe98b3b20f2ed25891067169875ec22f0aa794e3c85170211b2abe1796c5d",
          "6087224e4f8ac62eb656162d1c89af116ef60a4eb87d56a394b92bb593eacae7",
          "c087d9faea0173f894cf5092b875ada3e6dd9f0a781c0ab0b5af995d42a9c884",
          "64d507992b08648b8cee168889203e4a8842b3c76462e726bd30d41301610b88",
          "3a083495c1bae1edbcebe38feb57e38d3b2dc02245ec1a48c776823b25590995",
          "a09d3239063afbc69b94cec76b2ce11c13b8fe86e7593848e41bba7ab25ba5a9",
          "318780e087eaec787a11ab1a15f3ab9e38da89c3e5caffde458b664e59202b0d",
          "ac14f2f0e462eb8b50b090fc24614cf60635601277d240f36ba9c84c0ff698ea",
          "dc3cb0b36896f1564a0a8ea518a6ac425426c700836d74a39ebca2ec1619fb4f",
          "7ad7df9174eaf5223e7c1b08eefe5ffca8c42bcbb4e79c541cbe43933c5836d1",
          "bf6b31681b75ce17a8fdfd2c966c23f5c69af8c4d666ee190bf5983476b51240",
          "507675815a4c2acbdf476e9d0d800ea89dac1e6daafb5ca53860e6cb209751f1",
          "c29cdf763765ee02f1161ce4964ef3c8501988f7471de5a5e086979ec6753449",
          "7ad44de1f159dbf100e9d61d248c5a1dec112c8e55794325cfda9cffe50cb622",
          "8a0979ff6cf183d4c4ea5e7cb4e6eed6f675776fb13ea25cc77b3129ae17f624",
          "9dcc2e0fcb9bf450ba6f9360bd3eb2a28f29bb8d3c37c7b9c907bb310e53d5c6",
          "53edba86f06900e9273ce947b3898de56580bb54c940f8c89ce602598867497e",
          "b1c43d36da01799d090ca4dcbf7a07e1972977769728328184e3a15292ae8374",
          "4b72e4d7d801428ed1d1fd9db00a4e5376ee8bee65da8ee2f7fa9c9efb871847",
          "4b5aa04f44159eb79e29071399fc494a265dab9b95faf65f83bf1ed64af1a23e",
          "0d4703c8e086e8b5811e1d251ac1be9c5db716d685df8b6c2b31cc26d89da147",
          "2fcad3a27359449c0c13092b9ee02e01533fef3da86ec548279f26838b2769f8",
          "caaf51e8e097c1ed980e7f3d9367e94aac39a41d5ec15dd7e9cf39ea1fb1ba9c",
          "936bdfff1830e79b30e0b64795bb81e8cabccbe864fd3819163b5a797b528ce0",
          "354d7963172cbb0ed2abce89acac0cc2b38a5bab87331b8a0b96a50d6979db6b",
          "76c170872ed3fe8626fc8593d2946e7abdb4429d4420332eb40f6bbafe7cc11a",
          "29a2c8a5ecd53c8a7770801951b0ec6b20af22acc96b944415a94ee70dbdf8d2",
          "3fb07e7562189e7eebc76c6f96514f2e0ba73b8cb95c2aeef17e44afae6d6257",
          "abecee6c81f7367fb83bf2d6c8362114ac5391ca7af532b1b9195206753b331d",
          "179490f7244e3cf2b34ee0cc590f1e2aeed53007ebc822eec488bd5a53be001e",
          "9a5585dd76bb929ee1b1d3b9a4a316879694edc018c3b93a3a5d35f42515fab8",
          "524b6917063ef39b1c3d929cb96f89641f1bbefd060328223d3da56cceb4cdbb",
          "cf3a08804e16d09d57a05a07c2ef167275b2ebbe4fd39b18a008effc92f9d8c1",
          "d9f26ce6c5b7c28218553b8d5835dd3bd253e871835e543528e2546e2fb0c375",
          "181cf2e011d72b808d88fd9b6add1a0a56ac327f7e2f0c44170fe4d02498a814",
          "500d428ff2f58fb82af4488696aa61b642f371d2c34f6f88db7fc073b7e9ca34",
          "c8f8ce1f673e6ac59056ac1fcf78b1c4eb596aded2b3bb203eb96150abee5824",
          "bbd8a48168a35c76af1306a913870d173d19d59d4ac6f2bb30e9c6bbe4e977d8",
          "7638e41f8a0f587f3c20e1d63da18608baad8d66b108e3fc5def651c9c194a09",
          "fe2a912fc92451818d07e52e942074236019b1e0f3359a12d7e4b9d9ff1f8e00",
          "22acf5a58ff2b908f175210316e5d14328b39f608258395d2b89fdb5e36bd9b2",
          "068bd2c7f61efb87369586653655cac82ca0b22378ee57024b7e8dc996a9eb7b",
          "254fb15836068c45564fa0a61f6dbeed67b85637438bda177c6853e59f768b7c",
          "e19c41efacae089f8698eba1bb40fce6a70eee80a396791d7ded05b31489c060",
          "6ab34e2210c3356d54635baa86e9df476946391579a29c7ac3fb6bc0fa38b809",
          "7c22ac010fd86350e2fea9a141343ee31c53d7335772a379fdd1ddd2b94a7020",
          "faad3d5dbf836b8e8050986ef63e66afff557b5052087428648fcfecb7cee53d",
          "8f6936699f3d1beded45be3fefcedf5ec6c298bd5f0936ed29094155524af4ce",
          "0a767ceac26f0e239a892b1b7bf32eeb9b63f5b279d84a6c54d87b6892ce2d23",
          "8c48d205dfe2a1a101bd5ce8ab4af46da335779035d579d5eab0e0cdd6e8b0e7",
          "3e7d43cf4f17570592e5b9d4f4e5ed5ae3582c6447ce2866519e85c3d633594e",
          "f6d4b3fbd59be0cb5cca91c69501bc86bf687b36ca3d3c3703499bb6f10b675f",
          "c5d89f909223e51c468ffd581a52bbcda802bfb53e2e85b77688abfd3a6e4548",
          "9edb58f24b228b3df790699909c49ada58e6586846fe20360d0fafc5cdb038cc",
          "444516b5cea07fda8d1c3f4871f133d63327cd48e2bd147b646d9abc8515601e",
          "fcee9d897e12ba3536f6391261b13eab4e9b57a393a1bb8b978f0c46f5880c72",
          "6de269efa48ee3b94941555b751e8f164de69be04993e412d8d9e093165780be",
          "1954449e59e97c2d5d6659b9561dde414f037accddba0542bcb2f35404875918",
          "852bcc22473ad9cbe9a69c9872c62db210e69d4bc862161eda97e0f9bb45c559",
          "6592073160cd1b8fcf92f1e36a3af87b8ea819dee19de55192bf5969fc163251",
          "51121c95bdcbc4fb5de000fe085de31fb009ee006fd1a429d3e12531ed310d2d",
          "b595efe30604e11bb6e819f6a7c3b95caeca05ff0a13fbaa852b5690bb8f6d5c",
          "e4b3bdc7db46c53bceae1119526b46ebae2b713ce17c7cd4ed584a6023cb95f5",
          "4cbc4d3b70843a7010632e903e4d2db423fe2e6626192aa92080c8a86b9be8b3",
          "f682ada0f5a5241e345c722c9319ba23c0d4ab927a304670c2b80d256f8fe1cb",
          "2b8db2fb46b2fa6e9654e264e7f03a0b953e2b2f193797d8df4fe8fcb34d7d7f",
          "f3d6f84e727a13fd06b63b733ed4bef5815b623a48de9d1586ea593d8a39cda3",
          "49909a86be4b860157351f38d09b54211f9bbd380330c374ae8a0e74a7cc64d7",
          "bd0eb62406b332f508b59073a14fc70d02edd51403d2a9892061eae446e13e8e",
          "c4322fcc76dd7022ced336a223c77b2dde03602e441fdabb1b85a3ce77b7a7a2",
          "743f9fccf26b657bf5b9c0393e46578a74b0bdd32dee4bb7e80cd4366bf3b2e8",
          "31b9048735764e1053c544e1b13122c901304dd11c32eeae54912de3bef80b54",
          "d8a4f26f758df643fdfc844089f77519bdeaafd1120803feff74ef48fcad593f",
          "148097b3d379adf36be82bb9271cb87c783cc80c8606201cba268820be8b4f26",
          "c0747a77a2ed9387f6617a3e81ac8eb71f4866bb629a1535135de22121ebe4c3",
          "349a79d8c1ff10c4fcdd5f129de98f59eb2b9a1387df9da7e72650f29b0d32ed",
          "d845a164d2d3b283dd8de834698c3a0b2d8a2cf8bc85f6014ed317c21b0bd1e4",
          "d5e32c8aadabb437e8a6b8fe1dfb3c26f49598ef499cd37a4965bf1ba4e32589",
          "b92a57d226aef069c9959b4d9da8bc3e577b7be54c6773e2e0dfbf83a8cff073",
          "b777320f58ad7a4ba416f40c651347af3ed9308297bccb98444e1a5757727809",
          "48271af58d4dda9bf546f87b9e5458e6ee61e91b9eec8477628878ad4cd93710",
          "38bd7bc8c736d21ff7b5db9fdd26c1a1ac229cc39f4e443e15797fded1da88a1",
          "f3b9ec2108e8f9e6978c9c66e367b384e7352f6dc37ab329b9681eab20833523",
          "0812b564cffa7a79a9dab9bc211af81bf4eeec9a4a1349732c5bb78bc615d12b",
          "d23d02d5d4d3e8e0b36815f71cbafcb1b2d6f044d5a03481c633331d84a1a299",
          "03d0f6da8a0773af245ceff0d932d63a20b16a698ad9b9538197a5110c66473c",
          "6e2ba4f5e127e90dcd6806b3ea80342754fd1373a22d415bdb1fd5790848ad3e",
          "96e53ca75068d3649cc301fe0f929b9af33ad44c62fc4bca516e881cce5c334a",
          "cffb5424b900219141a51f581ae1fc800a6598b43eabf3f29ea3fb4d2af85a5f",
          "15f7bc808210b9ad4317222cd0d199cb16a47571e7f1de9dc90dc307267d1da9",
          "d6649a77047d8cbb9ebfe8b6bfac161e4d76e689a42ba2d66ead88abbb264a56",
          "bade2264700ee353379052df82d6f5b6a4306e920ebe20ff89250a4a2e18d924",
          "c1b3033e5a1a307d7833de014ca7c2d7f11141660c062b9a0f2d1ffef41e310d",
          "6e3e5f194c2ba6de3806ccf357d1e7648cdc98ee750513f027289130792950fd",
          "c126ee1b812b0550fee8101ac8068c0b740c7dcdbc056d3ac1838fa14b07d6b9",
          "b6acbd46ba7e80ee7730b55904e8f69b7097a3912b21e628c8f1e769bf6421ce",
          "cf00e0610cec6b347594876c4ac5cb9c4adad782306dec02dd7f8a984a2983f7",
          "acd01e84ce971ed8e389044b056541f449f610f42ceb7423bdb7f8f7ee9823b2",
          "4b7608d506666686b9a2b9921062c603e62075daa6b25bfa4eb598450958c73a",
          "4b7135d58febd7085fe073ddb20a906be557f528058b61d66bba8f582e99d017",
          "b6a315f1f7f4831711a3cffd4e1cbbb1bf8fa789e477437a68832cb01eb8902c",
          "281558a3ca595bbc417c002717a6b1b9e9aae72f54ef40f25ba7d89a434ee7c0",
          "371d5de90130f2ca6201a68bb5a0860ee3934cee6aec4e570adaa4924d5a257b",
          "a5887a1e7e619621d3a3ea9d6c3d0ae82618abbc74234f609c9e62a66686f402",
          "525c6447521086fd263ca2d7b62e9d6bfe1049196456386defb7a26e67efa4d7",
          "ec47c84228d67af067d5203a2fbca341b19e6f062c4d69e5bfb7b68e83f23026",
          "2b7fd6e4608fff7d5ef8eaa6013fa2a6169063db1b308cf3ec870f413beab881",
          "d3bc2c48f88eae0804b54e064743603fa60d6419322fd5db045e1cb669fd6695",
          "e0f7d4cbac4cd0706cca98a4b964954b97490852f2ff6d592e4cd77ff1aa3e2b",
          "cc630604535b21b0c738156cb16e76226c257d35f3012c808bbb35c8d4755748",
          "fcc764a65af8e9bc59c5acec296091e7471703886489916bb8901fca0c057f9c",
          "569b0bf64ac00db28aa924cd64c768197bb5e172fad8387c320ffbb00412788d",
          "5b746c5f101ec3c77cbb97e97b3da01fd7273fe984cbd65aafb91917513e684e",
          "2e84ebcd8df55087ebefed6f84691d7f57e53e2cdc16bfdc113f838af35ebeb9",
          "c74470251a58a32d42601b451a1a3fabcceed17ac84cb7a60475394dfe31affc",
          "645a7c3fff81b8bab010b6e4591e7d97fb05f6a84159e9b50dc8cf1370dfff81",
          "4851483076d3bae95d5d44e94581a8a83ec2d751847932b43e61749c9c178b9f",
          "b59f62cdb49e3038985d67ebb414a41aa8bafa74c7cde443a95fd750e854735e",
          "fa4b54cba18147ac80ba53ab223670085a090451cf9e2ead00324ea2cfc88301",
          "6c0be975fda31f83e58fe18386a57ebcef3c24a00c7af9492d09765950f8663c",
          "2210c3f567c673ac9ba25aefce890866c93b92a1d2d7df5c073db07d1fe66284",
          "e6f8699c70a616b924c623a3debeaf45e83959790f59ea7e35922e0c47c0ad96",
          "a87fe2b301df47b96ecfab2847f5f62624ef8bbb6182eda2c444788d94d108f5",
          "c332f067795143a95206656647665e76217b8727f5515015d7d5ab99e52184b7",
          "e9fd9cd9ef1cfd757820e0a289265916f8a6aa07c7d4c00ecf37a53d485edd4e",
          "752c19ebf41632c7c246adbf6b8335e70063256919e1575d75696e3fb8b5f8c3",
          "85cc091d8e32c70e689c4e8965b25eca4498d7b113ff03b68671f2b09e4169d3",
          "bd46e19e3d5524f54de11488943ffa6d540e448a21e464d91aa1854aced6dfb6",
          "fe764555c2535dea4f26f742d465a0e586d3b8c38d82b2033bf4fd900ad02411",
          "f25ff97c30907ee5b46f6f71119bb5098b9cfd475e246dbfbc6ee5b48676d122",
          "086eaf49f2f498accaa774efe8d3bb0a10e87b9ca9279806d9ad37fc399e07c1",
          "11ed6ede2c8a95c769dcbdd7af57d68c8737f9b93eb7d0767508a361da81fd09",
          "7ee0206e6e6e7d8198d5b99cc735af2834d2c13c45d84621a7e6af88700fac72",
          "dfa045003882668be377d1b8c964cb5b055c0efbbe40fbea881121f5f6878a3b",
          "9f6479b9106f95bdc10e90a9576e9809881cf53f35cc5d6126df2eed4afda825",
          "09cc9d2d5bbe9f961fdbf5126f6fc3bd622b0ab599c4de27827e550fe505e5ff",
          "c19ea34d4790a854785dc1e5b161fa4e95217e7e2ec753ae996530c930a31236",
          "ea3f4c3be0b518b2e3b02284c8a68e08dc2cd6e816b6b318dca80f7e8976ecc7",
          "a9b29e1e4dd93f3a62b6d51dd7b32393f223dfd546c5bab0d4037e7b2d70ee28",
          "16c79701426fa04074aebb2fbbb258007ba0dad1d591bd3b2ba7d3ba617e8774",
          "85870a0c39fadfe9767ea060693fef4903e793723be0acfe678b653c4ddab20f",
          "ad9edceed72e580aa046b110b1af7f3247f97026a34dab8e1b78a84e6f5fe8bc",
          "54a5de795333272885fa876bee4c0b27b87e5b29eaf504ab68a064fc52537d8e",
          "1db328e43e0cc6b6bc8de98b7b29ba8b88b23d50cc134f94aadaa35b87409a40",
          "922a6706ad7b214a838f8c112191abe005f92f836b7b35b5872d8aa92796751a",
          "bdf7c5689d8c9081334c8aed4ac30c35b45fadd2ffbe4da5ad857d3ebfcbe166",
          "e0315fee27354a1f04948256ea7ac9c6777aa04a1a5a45258f080ee2f60042d4",
          "edacd02ead48ece1a136195038466e3fe22865aa86540880ad2ec0f3e89491c2",
          "ccd0b088a280a622fc4b5959535c5ec6e04277d4d574f25eb5e958faa997b4d4",
          "ce806d0fa13ce51ab4e424731e3d24e0dc5602661bc99615f68d73b522c15150",
          "089b93e312c4dadfc7af36f60477ac4c7cde4deb0797248e8ac40538d7f94de1",
          "bdb87bb392a55fe8f94e44183e7e394fcaa3214733c6ba197b1e727fd2f76e95",
          "543fdb6160ce08949e4b78f4f74cc0c9a97c04b74eb01cdd2e4d187ce7cd1db3",
          "77dff6a1baec45f0765d45462550a1150113d8ab80a9a650394c682b8f6ba894",
          "51179728dd530e2a280857ed2c7eb7a120344dc746f048d8be95d38a890b9fb6",
          "a4b90b0456a9c9d74c5ec5302e432b0cc9e8d7af0d53126292e6a2d185f8d9b7",
          "88339a868b44547841ede5b73ea42a98d77047d93f42a93db8d11018c12231a4",
          "bdc2a97fd40190353dec1357f91f429f3fbb1632207dbfc39fe646a4b837bc71",
          "8112f0e542740697aaab09b348736ec6cf04769fa7bbfb1c98b15ea58e48624a",
          "e68d8434167748b024d8b7e4d98a4cc1a00585d500b0fe7b98e8ac74c32e4523",
          "84d0f6810e684812116d9c16447dcdaffb0e8997e76d852cb959ebf60226531a",
          "a8cdbaba93b647811b95ed589a33912f54a260700aed8bceae9aaf38c3a1c503",
          "e6050d10df53f4f3319f53701bb68a72fa4ef333d742f6f7ef4c467847293cf7",
          "7957e0a8c41826ebf6a40e8b84c4747fbdaed5acb8a18d4782f11dc90e71dd2c",
          "12f710c7c156b5e43c8acf01dc0dc811e45a2438e47355e055ed8d48a0ccfb03",
          "d185112c5dbf5f2dccd6bfc92d6fb43a72098b1738985f56a127480069f2fb5b",
          "ba2e667a4d256a445f66497bb5dde77c2a8a16d7b33ffef0d60fb063e395beb9",
          "2714bdb1c7064d403d84b8301f7c5b5a457f132e0a4af92e06e8c14277e6d393",
          "5e42266c1211b57b5a26217af4bb8633c655f4605eb2c69cae9c3d315234b26a",
          "5e89896d984875eff7f04927030cd6be910baf0b397faac4767ddb8e63869a1d",
          "fb29e854cb46acdff223da4de70500073203655ff52fbfe945b499ab330f911b",
          "a5a87e67af0ae331736553ef763d70476abd5eb2fd2e3415083f87055d2b0948",
          "83938ed268342ca53561d7b4fcd37bc90793dd7d1e17ba8721e5264c5fa66f1a",
          "192b453898817fb0d115bbb012da6dcdb86454547a974cf38f1d2e484b452953",
          "3f4775f254d8f56f694ef1be17e5ca3fca6601c7a9722b63dab2a99b556bfeb3",
          "08dd811d075774d739aba604416f7598d7008e1b846f8174c26ea07e9756551b",
          "00271a1f7ee81a57622d1254eb1d921ab144a40f1149274980069d9de910de62"
       >>,
       "100f2fd460d4c9e23709b86784e9092fe21338836c65b1fc0bcea2d90f06fcf6112/01/2018{\"amount\":2}",
       1,
       <<
          "834d3a67aa45bf743f3d6cb3628883830a593dace0901861a99617c7e6498403",
          "a09bc571ec98389f32d225910951249cd2199025bb6a7bc829b9505485072dc1",
          "9e54a76b8c05f83d98a0099e68570e3eec47c51340128af8d11ec5c488c38f98",
          "cee176a6193417dee1436e80347c2cbe7edb20bbc0e8659fc6fa6c524d1b9226",
          "57b425ba691ca167834cb63c60e510e01a0270b7885ce5ca74da22bfa3bb85fc",
          "9bc5fd8af52310a6cc9aac9fe9c683e84489aaa1df522bdc0a81e2687e9152b8",
          "ea327460c8dd47cfa82432990f33f1561de3f2bae82d89a546a405537d0b5a3d",
          "0b604912c3497144b74b3bf13e2e05ee1e7b997f28714ccdaebc554ba2bccdf1",
          "3d97ff46f9e2bd204fe75c25b822fa07005232c06938559189d4fbff88c358f3",
          "24dcd0fec9fc26f1d0a923b6a720a435a5a072b862bf121685571f0f7a91120c",
          "883eedacb609452a562f47d11a8e2bafea53d0c58fbc4784488e86877e1387ac",
          "39de84c041035ae817bccf286230e50d0d43fc6955576ef0f761972ffe28bddf"
       >>,
       "100f2fd460d4c9e23709b86784e9092fe21338836c65b1fc0bcea2d90f06fcf6112/01/2018{\"amount\":4}",
       1,
       <<
          "a04d6ac2b4b682e485fdc34e3878e9c75c3f163c443a495d3dcbf8d3469d2879",
          "1f7f61c8066745b8e32a3c1c5e023816ecfbba3fc8ef457e2254d6400a00e47c",
          "922632841a8e6d4a2d9b8e0aa9e565f12207a2033450c1f1543b710924c3c6f5",
          "737f62f017c6d6f9a096853ae84fc9f6b3a1b392f893772e1ea98fffa5ed237a",
          "f7c499b7075d6f687229b6357229650e5dcfe26a3b398f71494c9dfd5ff442b2",
          "c3384397f4a3d9483701c49e49b502c5081fff98643055d91e8db3c57eb8adeb",
          "d72f557369fdf51af45decca534b852624b4a408ddac383b76ea4c1d41d61be7",
          "a89084fee96c91fd15fdf39d9f3e673d14db16ac809ef7e0b26579e20b92a470",
          "3cfe90272c2412fd0e82ea0443dc1ee2a6cb21aeac54a5704ea511e98eb5e143",
          "f3c0f366b033f680dd4f8e13aa7b209cd12e6f7380d1c126f21f7503eed9f580",
          "c1e50825c7ca0b4b9fae819fda48d144bf8dcea00ef0456f99de21377ac92f39",
          "1e89f13020f18803d3544525bf0c4e476a59908254c3853a827cda46a167c4b2",
          "6f5f4891ec99fe8ae4206656e0a2f5f2aec4d5b5eb773298e3916865fff7db0b",
          "351f4548afcfb439488c78e14989db099a826fd41e5b3fbc4125a97324d344b4",
          "7bb9a95bf30024a1322387752cd85e08cf749210a05cba4c7c57767090fa4b5a",
          "12b7ae009c0791c0bcd7f0861246771aa9ad1ccf3ac99406dd6c61cc0f04ce9f",
          "64a2cf2c60b0982d49db90e372b1d18ebf53ab72d820aedc2d0e8190726b1dd0",
          "95e21a1e115018297b445767998d9d1dca4ac90f4dfd3d2437e1f686fbdece0c",
          "5ea77bbf0fda7dc2cb6a4e5dd89e662674d796ca6b1a11da81b9f3e604dda463",
          "c49d5d7ddbdcba7ba8004818959f1146ef33f297d64503c2b76099a5dee09984",
          "fc243b26e96a4d6fbd59a5d9ac3cbe4b4e7206db720adc7e8aa26725271f9e94",
          "7d2b367652f17d795105f7361eb46b8494b350e0ebb005c2d62012e38a45b5f6",
          "28efe6ea1d1c827dac6bbbcdd0c9b9a508a74c92fd8c3eb9e35d960023b8066e",
          "809dd5a4baec6dfd31db1ff34b2af480bcec6bdd63e2b81cf6a0576ce8f70f3f",
          "76159f7bd1709437df689004fb3acbfd68ca824ec64df06a1fa9b3f3143a9d26",
          "03cf3c778927d1e1c4a5e24371ddebe0425c70420531c946d0569151fada7b77",
          "5e10aaebd67a317684b840a79ee25a2eb0629fc89c1c7977c29fae5dec61f865",
          "206c0c36080dfdfa627a1871b6ec29b0948e452ac06b21d88d9e8d937beebe2d",
          "1038ed07d01c795dc82383a96cba704ba34ffb15f886968afd8511aba085155d",
          "9477aa938d436bd8815668663c9e12e2250cef4e9b0e5bbb00d1dbd44b38e7b8",
          "ff7ceb9e8e4c0ee24c336a9cdd41ff0edb6e62002226cac845b6c2c3557da447",
          "64ade51aaddb6cfe877d84271f9db8d978709e2a77c177c91836b8f7d66c87b6",
          "3a28ea09c6fde01f2ddcc6989b73803648c9f20f156782fb44a3984eb0247bbb",
          "85f190598d49daa7d0dee1889055de7f506af27b0bed7299ebbb808d8e51408d",
          "c5a294b321961cdb1693ca2a6ec1094cf985eada1032d229869eb87498e5839d",
          "01f0321c38c7c98e6b787f702a1d658b97b720a9e594d88a5e21b7c91994c9ce",
          "98f7678358ab37a6c9226749b4d3ed38ceaf99693d5a43b3cf6c9b4a0391412c",
          "44609930c470f10abd0fd22ca8bb5588cfaab41de475bdffea14f5c8cfce35ec",
          "e3183ce3227ecfe2da8f9cc0a01e97e63f89b74d0039bff316e2b1a142f46b65",
          "4ac88d46e42dc626ca5b228a2cf69dd8847196f174374c126ca03bae6b190f40",
          "8af2cf5fc9bcad7999a8a8df95b2503794751ab1a5deae4311375c30f66f7bc0",
          "4d31f3628401b1d60749c16937c9818bb089219ebf029425e2213af37d75759f",
          "ba1f5c60986ab47a6c60eeb09dd52dc51e5189ee38afbc71dbee67dd23417284",
          "7f468f49ac65cdbed94c7765d718ba57e181c273d0d8651dc5dcc5c5231ade51",
          "2827b9119240fd5cd7f2c73942ddf503a35252694fb4dc19af91cc2769ace082",
          "32c19b21e33faa7f54ca59a59f23be7fc6e4d58d30245e14550cdf5520538b87",
          "a05f7993c18377809fff9e15303e8cd656b7257ea4a152bd7253c5cfa08821a9",
          "8785d5adc3ae3a481e45cdba5c123dfca6e8337fe8927cb36825b06f8a778d37",
          "a9bc206025e6ef24a80cf30dd27400a008ab926658d71e1fd769014a6d7ea1e7",
          "68194ebd7daf8b74f5abcc87df3581b946715a442a4f86842d61063ef7c613d5",
          "83161a8e4fde7b90e9c6fe1eb171df5ab7996cf64ad8c30618edc5d323f1aee7",
          "cf13ad9ff6919055f37db0724ce1e4009c21c093551105393dd4bb464a136b65",
          "9e950debbe6342d3ee8ab59c96cb953251eb57f87833324b8c90db3e59d4bb05",
          "92589f6b44f37c9eeca2738e041637dbec5b0927da2aefe07f48406ebfed97ac",
          "e57a201d54eb68403972115e9b37fc08500f1899dbdd85ee9ef51c33150443b1",
          "5c7f973c4c374224dd314e59a2e3ca0291b38ff1456a17fbe757c64ee468cabf",
          "dd8444ed428a7be543716941f75e9f86789487a3e5f7402f599146d297cf0529",
          "21a5c3be024473d8e4069b372dff2ffdc16dbf17780be62272d2e67358007888",
          "aeaed6786ce432712d62e52134b29eb6713190a404085efd7dcad5733da44d73",
          "1e004350bad1df996429d14491cc0c4712b7985dbeb9c8e7a70ae4b7aa80ce59",
          "3bcd1c20b004ace0b52efe24767fc6fda00c4b74dd974e46c73ea6a7f6037c02",
          "50d9edbd8fe838909fcab8e6da0a6dcb6219854577a5618a038166266823b8f8",
          "5b56e46cec49276280273afba8d626ca9c8fa732bc488ca726089d0fe6399e39",
          "aa637442a5e9a398e6b776baf8285d5dabd95983d8f82e7fd5fc0afda7d508f9",
          "f6e95a3b22b70dd8f5237750976f5eba392d106c294658751f2b93830424fb88",
          "f6476ea7c965f3b56c3a323ffc859084bfbde57d1b091779d62102e7d023944a",
          "7b5308e12160256d71a3e999afdec1d09cd457c622465caca467c337d5efcbb0",
          "9648a9d643cff680c2018187f40c8106807719311bf75b9913b4a839e5413f70",
          "19789d2286e9abad6c2c06fdb5948e792c5a65eebfeb7824496b4e48ad4d533f",
          "72f8439ee853a0f093e3848eb01a788978cb54b78b7348e8b5babd8173bcb7ff",
          "6d51c0ca137214178f459565446f118b66b0ebc9b52b03cf19436a1d911b2661",
          "0003d830053814aeb8213247d82832d674c901958dec582a443ead123570fe41"
       >>,
       "100f33cfdd109a439d0edb684c2ab0320ae323c8a0aa3db9648380e10426d745712/01/2018{\"amount\":2}",
       1,
       <<
          "9f58feed5876bd95ec1fcf40b5f67a4be1f736c065e64a4ff674cfbcb862bbf9",
          "a70a39439b697457ea752b4687be9b99c8bcd261e4cd0ee36d2e4f811c7a621f",
          "a22359820bac6f87ab4f45dc7a0d98e96989fc6f3a77f2f33c7812abeb4ab070",
          "7b272373a1011403e1b9a245b35191660921d7e0e4f103bb84ab35e5485ba51c",
          "a7abf52bc775da03dd9cf127bb1654b625db34d3d6fce122a2259874a687968f",
          "f88b04cc3723a6bcec555a5edff28b1c1171288e3e210fca0aec1912a129910d",
          "1afcf5980cb8a99cd26fe5689b980725577d210112ca636a4ea23904c0ced154",
          "149f97b5bcb169ff834861c307ffff0e2a439f3025623016bf9ceea22d03f072",
          "8f5087670ebe434f3c13ff5b790e6e42f7c7146c4b223b2bc05a1e9dab148f36",
          "5be42a840fdaa20e2f47c0a6a82874eb1a9d5522ca308f1b91c7fa79bfd09616",
          "a43cb9129e7b16429eb20df33b8eb5379cefdeb0d6fddcdfb03bb71846fb1ed8",
          "e4ed1aaecb9864c1472c7e70451bfd245ab7955855259f299874545cf9e11bbc"
       >>,
       "100f33cfdd109a439d0edb684c2ab0320ae323c8a0aa3db9648380e10426d745712/01/2018{\"amount\":4}",
       1,
       <<
          "58aed827b232702c1afb0edc023b482e8ecc42e9bfcfa95d40015ba8737b5ad9",
          "f9342a1f1f17ca7666b1ab3d4b714d0d9c50f75031520651dc6cea51beb1e31f",
          "31835839753a0ffd4b52e41232b0113847cdf191045870271fdc55355ef17f7a",
          "b1323a3a811e44b999acc786fda1740ccf31a9202d42bd615af42349f462b6ec",
          "ac7b5cfa031698384d462673bd1e87d47576c807fdec5e0b1c3382cbe6a30310",
          "3e8c4988ddb79f5a10d804eb923e2cd5520542743a288e15932c4c03d22bae9e",
          "d3630488cbe2af10e65a12cdbb6b7c1a43a5c29b0326c885b71fa3aa54d60480",
          "642fc11e8617c20c7f9a7c96d83bb213f5a54d001ccde859a3c95bf1cbe6a654",
          "3b6afc245955f69e138c141f6ec3ff3018dfd9a4fa44c6750a9899e69de118e4",
          "8e36d36c21d47753e81a93f2cee5d06002c3e5b23c2635b6f91e5ec0fee0238d",
          "a40bfa46f7510f5d8f8ccb21b95d36883bc62b8077e1aad7aca3a512f13ef4e2",
          "e49859baa3e84ee44426ba842e408aa033afeaa2685208076f64b8bf56aac8fe",
          "97117818ab899a5c78166d4d4f60f7664565452108964f63b7651f1e75688426",
          "1e809f822b788c5384231e31dd395eeaf2a623f379291577ae4bae9d8c8db2ca",
          "f24a4847086ad43f5e698548544acbf62f7fde968968341bcb00227d4f28fac6",
          "6b58b12f832172eb0be09bf9a44d279aae2b512ac6976be56508cdee193b5bf9",
          "80a185a8747b65b8703a15f8d5b7025bc3651083e68bae712d62de2aa18d8b67",
          "c29f489a6be0df3b6d2a38314eef488af634ebfdb5844b2d3ae03a4c1620e152",
          "35d306768f2977387bc7372a9eb1b5eb32042d32a2a148e0a5f0c88c87fe282b",
          "51315362840e44c057b0835152911e8def2f64c673a1b42b1ddd2f4b90806688",
          "f3aab18126ec194ea60df4ca42bb8e60c622ed878257b69f33bca2d873e56ce8",
          "6e6f5fc11044900c4339808e3cdca41d98c6451c55c495ac3ce38845053c3660",
          "640d22d96e9ff05717ec10fad44af8b53ba9c67d2073337518af74f3713174f8",
          "271ee917a925288831103a8afdcff01080a682e2ff2f2d7b4edb7d33ce2cb96d",
          "dadcdcad801d47727b5c2a460bdcdd764cca1ef7be7807d3d736cbeed17fff2f",
          "2a68d15a35ca93ae0ac57b0f96216c5a4f1f5ed1e73731c7c086622f910ce08f",
          "a2b68012e2071d1ddb72c9fb313f73421569407a2b86bf849b8711f9c77ac466",
          "222e1da5a48282df4e3bbb784eed7149f96839c8c53f7df0e8000b18f3e250ea",
          "ac048545b9b37825bf9aef02ca578c3080c9e5122e0dde9f9a4c867cf86f0c96",
          "d41ddc2bdca06e51ac7cc14feeff6ba3b36892adcd8e0ad4388fce219f79a1f9",
          "4c4a4053e9f01fe4eb45df0a05bcd5713994ebd71e6b6a42fcfa13ae830b1777",
          "c1bcfdafd76837a50a7f4c4b9c0023537036cdb9fd5b6db15bda0d3e49b3fe12",
          "e5e0e4ba3ab10821bb3728762d8a09a0dcf1b873d31e3855edfb683b7e5d9e7e",
          "9c7bd9b8762c631c76d4ce890c2fe871e141393dc3648f281c67415fab55d523",
          "f34c0cbd57ea90a7388d7dda5964744c0ea8318bbe1e0f5ef46b3ade957a01f3",
          "9757ecf45323c22d28efce9fe50b95b73e18872bd2aa24e94a3b9c048f59ab90",
          "f9d728b794493371bc2b78ff75c8c1fb6f04950a5c5842412205cc0051a78745",
          "dd01ba86b7b871f8052a423f9300740354ce609d973222a8d0dbf392aa98749a",
          "fda1f7fe3cff6a46e5d2fc1d67909b6951fa5edf53f8f8c04ae3d4c7e2d26b3c",
          "606bc8e888b784bf067851ede6378ea1b02d1a8b9c22bac4fe0802eea5f2e082",
          "30352d4bca3d289040f189f5c2cef9095d6b62c29e97d69baa63180682ec067f",
          "3b92d870406f2b7c31013643f66dfdcb5de1147939128ea7eb4cb050ded8f237",
          "41fe6065203bcdeaf5134da67bd041a806ff60cde4f7642a47affffca3c95d9c",
          "ba7f6a92a4750c0025cb4ccaf60206217982ace4a3201ee954dfec8b54773b66",
          "d9ab92b0e8959deb2fe24c92bc6ca636d6db28fa4c3ea28ecac3f32400f4cbf3",
          "2b5dcd11536a828314d1689bce29a638bc95cca2b61f3c11b3692af4de71f6b1",
          "844533ed0aa5e754ddbe0f839100cfc20da17698ebe2921b9c1bbd755ec439b0",
          "41c7825285cb055a6bb1eceb1df5ef9e50292da1fb24a917a36de75d8a123e89",
          "03f6d4cac9da206ef60d1d7406629eb31b0e514f7304d050739d0794af269b9e",
          "efac1dda4f393a0ea55c97eb2d5d866026a0aa872718c9ca8bca586f4cbe0153",
          "18cabc9598b6e6bf69288982293c6b111f947a48be09854f6529c0214660a913",
          "a8330e81b59f56cafeb416a96253f6d549ff6f80093bcc91730c7ffc0dc5155b",
          "1a7db4c57778f169ee26b57d0676040e9ee9128fc3d36a33eaa6bc04c2597c35",
          "896beaed287fa7c32b8c931948e35995979e17d7fd61e379f8a6f7b421b379af",
          "209ce6ab014d22b7cff450435ee27d4f1a64650719e5e53207d8ccdc464b5609",
          "e9ba9ad0a4bacfa7119f7f3644a5a09f4eb96e9371fc05b569fb8fd86aabf4f1",
          "efe4600ae29671f05de12bc9636b1d9b6c0f6f351dad56832b408e8d786ed79a",
          "d37a97e85dfa57bca794fdfe7a492ba774d1439abc44f83e6dc14f0bbe8b5a0c",
          "63f5b4ca76feed91cb36460fac39a1c8c391a793802b6ecc4419dcd66a1d6843",
          "64ce6385678221dbf1afaa58a45960a6a45e57b7072e2c22381ef5a25b41eef1",
          "02c790f8866fd9e09843941cf77ecd78dfe88e1a19d644558b4ec87805bb3712",
          "ebbae454727540ba46efdd055e63bbd243f3aaadf9ad666b57e1cda142172ac9",
          "4002b71b4682995010137f9dd279c0ea12f29b6c58add34e491593c9c7a70c21",
          "22f9a313eda478d3e42b2deca2aae396416a009f382224065aaa78314d8a3fa5",
          "a74694c424c3c877968d71dc70e67e3afb177d6544c893dbe28dc998852d231b",
          "670b7aa863f07b73279f191fdd12a1bd8aa312755b10f309b090c6e85471448c",
          "d65ca645c1f6c3955ad9ad11c250bee4e892500f44c219126d22a53cd83ba9b8",
          "c72f45066aa2860b9daa97845cedfd4889f67f51c4c363f0045d23d09ad9dada",
          "f41d813541cebfa5470da6e55f261411fc0e371d215ae4753019897c3f96a1a6",
          "e4e54f03b7ee6e83d6a2a8ec8acc7f11b5ac22bda1046786961dbc355dfa4b14",
          "19431b060554f2ff5bd4fe31d9a337e862abe40988101a9b8361c017e205da7e",
          "b81ee7d1da8260f0b5ba092fdadc05faa064f8a0c283db3782f2adbe434b0e69",
          "daa1d942273d16bae6791f93afc3148c1e6b51438c39160128cb159e29c177ed",
          "fa5561b2fe147a19df01b8cfe3865acac97219a7e7642f7a140fb02d1f2c1dfe",
          "af7faa80d41cccbc8343535261213ccf0bc6765034c20677033963d851d83d94",
          "8a798421b66b9ce9554c075b6bd83f5d32006f85fa691e62ada11029cf37fc6f",
          "4e19b9decfbbb6bae21e7e35348ac6a7c3e7ee6ed89226164c0e48837e04bd51",
          "bed91a6aeed8891333c9f3ee5a4f03ea30d57e252f918ecbb7b858722a519d47",
          "758d69cca8b025f1ec23d6b16f50e12a670483a9f1dbc3a86d45fa558866d6d6",
          "672f41744bce692309a51bb2df5584a6d7c6ee0e50e79548f600d9a0dc360107",
          "62e92c6a8000ea2f7601cd05f6a89d9dba5f3b2748926c650d2298524d289975",
          "7cb1d300d6a9b9ecd071a6ad7d87b5b892aaa89523734cf69fafaa1e32d51a48",
          "ff73e1711fc2893808349ac0e34f23d0e60391126e0b588f091c6f02595961c9",
          "b37e8e77c887153938c939427bc0ccce312aac067539dcd685469110e952cd18",
          "7d7d9e07742da663033bc6d6fc018b0a6f5a63f018bb5d944aae2555be790a3a",
          "21c85d77639879a6aa44649f26e0c17e0d684f641c7bcd82fef47f6868314d17",
          "bb485051f114a3f7cbc4dfd9de6f3e022db535b26a2965033278643d6d86fde5",
          "790e168814364597af51342b5370a8f4138e09305313e2f524a8b04ef7f88123",
          "b4e909887404b3a1f40e62085f4dbfd39a50d6df84aa3569283356060de4fd66",
          "19b25d4e039b43aa5f6abc096f050c0b3d019125c0644501e1cf4f2626e9026b",
          "a91477fb5b0857b357559534ce7012bfbfd51fcc28f322561786bb95a992ea94",
          "445df8bd6e2072fba2c7a69aedc46baf5ca42d7e741d56b4a40bd93df2d0875e",
          "55f7b298cf0a06eb7e2d22ba88bf50708935350e933499b73240b29185fe0753",
          "4cc263af844bc413c431e968391c5df53f1b6c7d818ad9a22c184fd1286d0d25",
          "9512c352a345c781624010694bfedf02158d437a9821361e9f82e778b87729e4",
          "f2910d6344deefb4197d04445891ebf62a044bb990743db5fcd6292c22af3ca8",
          "eb1d900725768de1e39f0b766047ac47d1252cf5217055ffa397d48d0459e8e8",
          "ec4d8874d57f236046d2c01889e2e9a71edae9e6c9243eae3f3627e04510fe95",
          "9db6f4b76571f50cdcbf3d5638debddc39fd1f02a668319c6491e56ff80e1188",
          "ae333c118d0104847b71f7445820ce156b3196095bb01688576148c78246491e",
          "e3957a0438be6d467548f6abe371cdf11b642aa5edd8c7e80ab6c2dac16c2652",
          "9f90d016657b5afc09f571c693209b1c7ba4df1c3c68541f69b4e7a99fa24101",
          "27fb1c03fbfb61cfdc72168e33b81c0ecfa57bb33bc39397623e200b2fa85e65",
          "05afc30d0828fc2980010a165c1377581303741405b98e489fc1cf615d25f0b0",
          "f0b10d0359f339984de5e780987664264247096e23173e2b35f8636593250859",
          "c2029acc00fa0eeeb950a3c6e86c666f68b2c02da36ed64958a5994cb65095d4",
          "09326699bc653084979294bb868ca8cb5045048a8e4e87ff7cff7d378253df5e",
          "7b11575d275466a80dc9fd2f5f2860e81d891438445beaa0f08cf0ebfdc5743f",
          "4c9a15db99a41329f7bd13d5ecce2f4a0708c8d906d305b23645b325fdf988a1",
          "9a838b7e7f20bd1014712de2600283b1b31611f71e93bf01c13801158f8419e2",
          "fbd6efee9d224259d55a152aa8c917c191a11be740d3aeb4c9ed177d6d939e93",
          "0a7b13a7ff21a3b9b2ebed0373be5463a432c0562c73de778892798ed33f5389",
          "ae09bce4d8de4fd1c2266affacf391d77c62130c18bcb05ee7cad968dd20c2c1",
          "fc9664d08c096c3fcd65c6d9d93ed458c5e11e98f5eaf1482f72ad81f1d662e5",
          "0a1e9c32f0087a51cacd742daf390257a034778defb40a92213b51c2b45683ed",
          "f9b4ee7b2437e4dd2108c9d933c5d768edbcbc93ede45c4cc8792fa11632fccb",
          "7156c92db4e10d574bf672bb9851f8cadeb3c75534559648aaffaa995eee1504",
          "c3029f5c2f57bc4004f4023210b896b4876a369cd8ee470c2e851cf3ba43a340",
          "aa2e3d121f29de1665462a2252d4538fafdf55c0a7a090fb3d2d64f8567046b1",
          "8f421e212b511616270d24466dc30db286db135f41b921d14a6a2a74d2db9ed0",
          "ff13491c322cedcaf2abba2e589c170ab3a883c3c65f339d0d9f4304e4f04563",
          "1f6023efeebcc5b773653ae6138003a5d0a38f8f890d66f027c48ec884afbbef",
          "898004590b032ebddd55317b7f321c9b519e6d508013afe1ac65518e3fcf9aef",
          "175a7e57f7009f53c32a898dacf75728f95f6c9101eeba0a2249ecf5cd326d1c",
          "d751adf74cd72e5c71bb173bab3a402fa30703a280ae1187ff4ec13486ee2c6b",
          "99589b8ef6968fd530f54ec4f96db4f6bf6a66bdc5a6f0835b84c4e4e1479b84",
          "5ded47205b72a1df159cb32b894f4bf826554f4b80ae894eed371be0fea854df",
          "227feae33c7675475b076b113fbccc7c5a455d61b2aff1179ba2a116374ceb1e",
          "bad6566cb7c17ce329b190ef7d32bdc66e24c3d7c6ae2bfeb714c6a606203331",
          "d14b9989dd9743b6560ad8455cd613cdaec0c4fdf4b27812777195ac429c2e84",
          "e3e189393efce29c74d6129b4ee79164228f7cf3292d60e65e6cdac20baf8a0d",
          "adb5c1ccd78ceeb18bb79816ae65c80cb4e8521f623f47a1065be22f987f0e55",
          "8e53dfec26d5d3d2e9cda40c54376bcc93be6be4e763347e2d1d5fe6e933229c",
          "87e272fd79d3300177c58ef05b7407216d97f88bc8a36a982f886b27950e550e",
          "8aadca1636cbf8eeee17055504038148661cf866de4a696b6750549f24f0033b",
          "bf4640266b696788b662d7272f32f852935f328c963d963f69e644842ec25f67",
          "34a021ddfca8bbfbeeb13ce044679923ca9568a13a2974ca120a85447afa7db7",
          "4048ce099fb36fecada14ab71b1ffbfca8c52255227dbbc7e64b796c30f5b3d4",
          "f11b3670a1f80af198572364f4d94729b942211fc722ef0d9f2d53f7f2d599e7",
          "da4405f3a60140f94c511bcba3fa861c14ecf636b6f53e56f5a2f6d5280eb08e",
          "bb02c3e0b1d9c36d7064411f6eecdb3c1561be84630290422daa03099ff53af1",
          "06788595a53251c22ac239e6771aaf96d71ffb4f7b54f6414390ca23358f200c",
          "59ec843016f197d7c2256b589e70d725eb09722310a6338f174cda6bf0bee561",
          "1229a6111c907efaa361b346bff1d0b3a702349d66d6e1ef49c057dcab0bab33",
          "f9a27a599980b37461d5973689f88c26b456e990ab1d00a6dbf994f89a287387",
          "cabffefc762d8dcbb767978816de8b269a3752cc228b1526a4323007921ebaaa",
          "a782c994cfc28f0d752dc0a351ec883d12041837a5bfb0533a839dad33c1a708",
          "390e0501204c28e4202663f55f3aed0cb8e606567119bd0702322ea8b465a01e",
          "d77e6c591491164fe11318b8ae7eb9ebce66af45078ddc7cd368401445c6f6ac",
          "56ae8ec2d2bcd9fac35d8cbe3be8379fbd7be17386df947b61bc90b0ad61885e",
          "24adad008c59af1e68c22b655bd0b442b9fa71be377fec4570027b155644d99f",
          "5150bc990db6404edc992cf85ea406471217e419bebe5dc76c0fc67fd10c08c3",
          "7aa38cc18dab309d65e4ca2cf079c52192535065a6fff36b545f12faf9c0495e",
          "8fcf8bcf77aa4a683dfb43029fc2cfeba82a95b4a76b96511dc00e700dfd43b3",
          "511d8aa463fc64a35c250160859d10a799542bfff9d7bb7aeb5be6677c5e348f",
          "4edd77053cf72c3a296866fa02bf8092f50f0c0eef9a2d2d07ebb643e015ab7f",
          "679f786a52010d518148f9b774e4554b6dda19b565e575edc98b253782621b01",
          "77a4097a4427d6f735f3dad35c18811e130cc83fb7c2753b9b2e383a2a374dc3",
          "c5c19f9612394905218d696c0d2ced4c1bdd007f9e41d3d319cd3d44966a8922",
          "6f04eecd6c92209072744285d7c5e9588e8871aff8aab7a97a53d578100f0599",
          "2906c74bb8a4681656af4eec1f395c2ba452737f0ed538cb66f24db39845b79b",
          "751622613ca9bd4dd6f61f01463453231d7d6ac52ba0c0947e2d02e40a131e66",
          "55e8bf3a440820fb33449a5730729a0279f5c3f15b677cbd4ba9628335c7c841",
          "1cc4676b6456502a4c8daebca7e1befea36a5548823d2136141eeaa68bf7a8f8",
          "c5550c26b9ac6b112815668b8aa8f4af23f0cfaf2c6c0d21d5a2989f5e077cb0",
          "9dad6882cd97cc19c64c5a9dc60c9c89b34cd0cafa325b82e8dfba31b49496f4",
          "8e172f1e5b7b915058052f077ac2b80c35a0e60799b4a91cb9ff702f484fd532",
          "16c1d01af7164c38302de782cae9d766f529c5fc17ef49985deda87ecef5be74",
          "4625051c7388d5daad31a618d529be8e6518ae25a1bfb02921e4b6e1aa62697b",
          "cefcac455ac1521533816cdb1bb8b33be0ec32a4944bf846ea4228a14af38465",
          "bb448d1abd94d95daf6cfa4985c5cbdcc668a40b4698fa7fbe6fb1ec0a4dfbca",
          "7a1c567dac8031c0294a1cc34ea6743b306381e3da334105d8113d8d95a82300",
          "9b94ca3d7896816a36df5ac76cc44c661d809070ac143ba10f822fff08c4627e",
          "e42f6b21ea178438f9ebad801a427010115dac64fb3498ab79dd30eb9c16bd72",
          "8a88595b3013389e35c4461bbe667bc3f82c214af427a107e298827e47cd8e11",
          "bb8945f2fb5b0eb337eaa440396b2bb3f879caf0e4a3e314fa28eea329fa8285",
          "65e53cd2fbd172c1eddaaba1828afeffcedf17839730daf7ff0557f5372d4ccf",
          "c7501bccd41ac957c4ab8f4906607d7f5ec1c96c3d088e0112e3a548023aa97b",
          "ce773f47d79ecc6090fc6fb0d5d620081e5f54188de2925d15aad0caa3fd7cd6",
          "e4071cee576d1122da4b5cbfee0a0994c5e775051bcc73e7dc0cdc269bfc5dcf",
          "7aa5430448fa3ea72e4b8d947331a57717cd6e5c202587aed2debfd4a17a0142",
          "0acdbc6e90ebc8715681e69fbb933cffd6de704b096893464f5ed502af1f2359",
          "3145040fb7c9667f6f2238b66deec17d8ec2f4eddbf281de41067b644eea1423",
          "afac345c83d7a840d311b8d2f46238b1bf8067dde9b25a7556b0160524d065c7",
          "0e624d1f424720e14f84c1023e8dd44919f0f9bee5fa21857e3d038419f21075",
          "aa97335d6d6f27822e8924ca5be5bd06ad52ca24da173862f34cac062fe4771a",
          "7406a574d3e181392db0274e0438d6126a3939bcfabe19b81c75de4d11a03df4",
          "3a463f667a8dc67cb6abe462cfd2833e301b3bb3a2c3ab641967d725d517275c",
          "5fa0d270dc32afc071384f5de655c980e981fb45bb6afc8bf866ce8682b249b2",
          "247748f68041618ac0c0f74ab7b772444d8812907b0a63bc54206ced050de782",
          "eeb28dbd1fc39fd7360539328345d83e5cd89b3fdc73c8bb13d2fea4d731d54c",
          "e891b1ef6c8a808ef333c4978a62032fa72ecb5c6d095283837713c0cc22dd2f",
          "8113e5ae51ad17fecf2a450de557466a35c8139525609e75b6e4732a501579c4",
          "8c9c603e8f13e8d97d203063063699017a2f4536f1765337357d291a271d055a",
          "b81272c0fb116e4b63ef3d841b391031df72d5916831e6a9878ace898d6dec1e",
          "72f447f0b8f696827b9272ae69e68b37ff56ba9469cc131eeaa6e95692db586e",
          "9510210349e0b36a12a58012a018d2e8c4d43de2955480899d93fc84f6ba9388",
          "2247858d30a1bf6b52213c5464170f5f30fcf14e869d182ed84b754e3c630bd5",
          "b69c73f6b11ae6907126b7e6b7dc2ba982607c8fc2cea4dfe4a47dd5b46f2cce",
          "6193220b472aaa3962ee62456e17cb7f01d196bb8ac9948707070bb5f73f2164",
          "b0f906f652add5bc7c19ccbee43a80ce219df43da4822775c682ef28f4b04254",
          "563b6d1462f1ea05a1feca288fd6e99fc47385921d35c63b1f7f8200d6078730",
          "a48b6d59c49d2876c70b2e17190ab21c699e08bc573bece0a8f9d255b959e091",
          "5e497c04e1518ded63611906dcf93b6cd543b8495005845a3fb5670cfc462d48",
          "9c62a0e729a56737dac3f59d3027b6ffdc80801a33de2164c35151dd3ee29160",
          "dca81022d3232bef668126c1bb6af80a5fd879555ad1ab48a76525f3010bf8cc",
          "b5652767a7a92f09ba229b54d718caa170d61e464d33876890f563c782b30d8f",
          "87bdaef60afcbe6d5267196a9a28cedf74fcaf689c77ba4607196a73a32756aa",
          "b2d10090c25ba1504d226f25313633dca7ea4ae06f3e210dc7caf55ce1de1831",
          "a28478573ed93ce2d63d357508fc84be909d732446c27693efe45a8e7f048b8d",
          "190e0c62639d8f066ec4ed8735a9ee5f57e73935ee2712f89c855f7da6e053e1",
          "e5c4e664706afd3fc6b009ee3670900f30393e358eeaa13e1f7b89ee003163e3",
          "dbefabcd9e40ed7ad314766a31c8391953fe48f03249dbbe1384d034cb350e14",
          "26d37b2a951ed712d9f4bb97bf9429565f384ef7cdddcd2597b4c904b21ecefe",
          "ae92cf8f0bda3bc5c1f8d94df0bca14b19fdb04090cf23bcf901549e81838c0a",
          "e8a181653b43445ecd33800c52dd0d0edb2b4c07feb6efd089d57a6c55d9bdc9",
          "02557125e0ee91459dc8a4ab016573f471294bb0fb5742523aa08dad291b5983",
          "e775ae87dcfbbf5a36bd700d846be0c8195c08f61036cfb9ffcb9d019d0b09f7",
          "2ab9ce4f9bf1972a9b5b6977b29b0acd618fe23734efe08a2194b9a7ae8596c2",
          "abf243c16d671a33614275de658595d48240b0e8136a686d2a0c5a185c5531e2",
          "fae155adf9941ebf5bf01a2b844428dda940e0cafb72cf532e344ef4651d5e17",
          "3d5ed6773bc80929d81b5bc8e267a4d189d602b705693be48c110d070f96a8c4",
          "c00649733e3f3f2d134c8d1a26f7fa91434f5c690b68d3b58b7614e8e9ed2729",
          "8a6d73f0602116e712da6f616926f5b116c71af8e5c586f8f74d658a47b7cd23",
          "1a74cdff7f00817cc0f1b56494bfbc7e9a23527b742b95c99c18696d632e9701",
          "3a35a94bab4f472ab2531e426138f7122ad8d95792a5013dd62e5c4e4648ccdb",
          "c78f118bfb1540998deaf692dd635331e673e1284d325c0f7cbda0939c70a14e",
          "b017aa130662c9b5d9490e783c13ce65be83694f0068deea3db7284038758fc7",
          "0ce84b6476af850b36b7ae6df120f359c96f25d0c40a6c9d49ddfdaa286b7c77",
          "1be40d670c1a00eeffefad3f06b9a3902f030bcb952d2c0be07d123829897ee3",
          "dd82b5d465d4018ebb3bc8440ab5d214b87967b209e6cbd825064d932c3c1208",
          "74aa31fc178dd2fa7fb4d17b06bc9b16870d279e2b5a900150118277ef0ccb77",
          "535ba8b42516389cf0a8764a9f602f07a8a981b30ebad39e511cdee9f83bc352",
          "e45702fb5134f633dc4f496d9000e44e52aa362381cf2bfbf0c8181780ddb7d8",
          "cde23059fe3104dadb3ba52fcbf0c078326174e35cf283ff002dc4915f05c29f",
          "3fab584f24e1f779a8183954eba7b7091e658e0938da21061b810cb3f5416913",
          "8303707f55662b2c8e3002dc2ac6970d548d6cfc25cf42efa525ef167880ed23",
          "c1431566bb542e01340b9f4809f2894a6f46050b7fe95e97ecdd2663b6d91d99",
          "3084c171e1e40e2346087540d02254606cc4781b49b4c3168288ec9da0e05a55",
          "f4b3865d741f465f7f3e2610483f7e401bec3ea3ced9e83ce6410b5709df0afb",
          "c9f7e3c6e481795be3ad21d85ab1f285d540b1d1d7b6828d47c7aea14f48db1c",
          "5ef563689b2306c2dea015cdeffc9862396055962c0abc8192518ea5061ba439",
          "30326433f9a8e03c26585d9d758c47ce907d503e87e0e944ea01b7be484cdcb2",
          "c78ff6088aee0dfaf73b4f4558c35299a793f9bc865e5ad8518aaa215d90190d",
          "701e2cbb35a2ef429939b56d07b482e5ce1589598eaffe550f78d9457a639ef3",
          "0cf162a3c0704174e7769e9ccbe6e899e16ff8fe3d68031165fccd34f0ddf03b",
          "1a593b6d0e1cf7fc69e20734b45823423ab34619d2175206d7032e99126bd9f6",
          "e09518c1225f22f0f6e74731dc0b27d86162411800140081e19737596b3c1ddc",
          "51038e428b5c1d443edede2275b3a0743d54b3559270ac59ca199f579315008f",
          "b1d9cfb99bf7643a3dabe5b4dfaa1d43ecdeaa0752d2bcaf961a0dc99403802a",
          "bb27cc6a1abea38dfa2b8a8adb7881441fad48658f4edc2cb4ebc95f6921dbf7",
          "13a31bfe0a59702c3aaa9f8af9307f3c37c351d931c035a8897f21e588b043f3",
          "0d870769497096c13ef2c68cbcee8f161e4d48b3683dd3c0472a6eecbcfd998f",
          "23811af80f1347c4f905f8462fed96ea1e35162fdc3aedc81fc863130961f8e0",
          "a53690ed0df277946d60ab054f409e113e8da93884774c133c01700d7a139aa5",
          "387560f1ffa249d40ee833b89f97a4d9e9e53afe9b04744c917250bda30d8c46",
          "e74528e184d83c8c31ac0c1e0406d77e016af9bca2cff5e1d4588db10e23d80a",
          "94011b76539a273ae28b822210988a6755c771c4c6d86f5fa4110d4f716c3855",
          "0a69782e5d63c574162ea46d179728612671184b856de9f3aaef9f9bc5e68092",
          "e007a819c08024ed364fa62655b8436fe4f574567833d6fc4e9aad0487a6ef31",
          "fbce1127c4fbbb4589615e1e368407121bbb3a55aa212736dd326bba26b7317d",
          "edc68cba66c7243ea961c92b4bf1a89948918c511fe9750bd3392e7692de2169",
          "8003a0d132534164f4f160a965d7c4926f1ce41cd62dcc8bf4e8be56ae1a1bf2",
          "9ad2f1a12992689f35e0dff285503032f3b83ee4a9378cf48b2e3131c2789b34",
          "64ce638c5826bc7c0d62374a4cb8daca2e5784f06d850edcbe7e392cd8fc0ee6",
          "6a8e1b74677c1b2620168e85b56e6534eb4693eed6e050a0d2ddde63ab3cfcea",
          "03dedb2a2b6b38119861d61581a8e74d9b8540f3b2557d1c3f9215e8865fd051",
          "4a88f045a25ebbf8b03dcf36fdffa3eab1913bbbaf994b68a7e788379fff1f4c",
          "f915ca5d2337a42dfee91b158ead2ff55f3ec98ade7fa51824d2e6d9de92df49",
          "be2f119620db82e35d18869241ad5208e6abedba3f704e499bf7d10b77d84030",
          "4ce1410ce7bf16da195834cf3697a532c29972e58973eaea2de335a1a63e37c5",
          "ce36386398cbe5342eea2c1d46864afa708e5e67eebe1743b7b9f3fe48c5036d",
          "3baefc5af959c3b4c2dc4ab252bfff880fe994e2bc5d40d90779b8558bbdf5c8",
          "18996f377f3b7153915e88faa2136747c97d11701f35534b0fd25ef7b9eb2a0a",
          "0d9005c86e9848b114d737a5a0fac50866a52b4bef1423432fb0ed893da97557",
          "4c568b6eba44a7dd6eab3b222d10953b6d878e3c5295d45d7dcff8f2730b0641",
          "12e9131ffdea256e45eeec7927582a4c6be0817209908c8f98d1c038d41ddf6b",
          "02b9c6cd8506002a743becc4ba7121ca88735af836dba6c7704157280882a37a",
          "3cecac5d8a868fe3344a0cb09339f0ab3e3dc8c4d416447946999c20c2d4721b",
          "12bf2146d9d8d433f5e006b298345512f0d29a64c951b64fc38730fbdfccdfc6",
          "12819e49d265d463f4a3f18d5db6ab719de09f96245254ce455559779dac909f",
          "e21afad3e4da25178738375624c68f4ad14bb3013a5e978a65abbd86eaca5e7b",
          "1b52235a5b279ab7493ddfe6b660671d8b6f4b8bd9e9d9e0dd996aa1e2dfda78",
          "c5f11e8fa8f96089bc9696b655ce40708b58218f277db73d8ef755837b09fa1a",
          "652a5098a255747d3fe17b0b328fffc3700b07f6974c4a63139af72e9f8a6db8",
          "e6a4792dd2b762fd614d687b87771ae2dcc9b6faed0f18c25168dce3d27b2eaa",
          "d2343eac05c6529b9e51ef723fd329df10311ea4319b1527c23d6838eb24fade",
          "dedf0ff4e5115377b2787b6866f42f6ea2e2f41b892940278a2c128df0be5cb7",
          "d1e538b5e47841dfd1cd731e171e51f4b8c62f8aa4fb0bcddb9dfa360cd77a59",
          "9c4c09adb5aac565a385cdc037ee3616c5ce55627b584167f5de42addca1109a",
          "29ba9039adcc97c41c135eb2d97b1f5a8591a2bdc347284a5b35050eccebc68a",
          "fbb4eaa73cacfe6af0af3e6cc7a4d8a1d6642054476829cb52bb3a268daf251f",
          "7caaf3b16c31af8015cf68c9bc763c0db2abdde81b7fb1d25e1248cab52d1678",
          "2799d2ccfbf6d3f50acf649e1372427aeb804593b9065e9b85978c0879f8b9c3",
          "c86df3ae0db61d8718c1e72764c729890a99fc3576740f2705e05588df4209a4",
          "aeb421e35608f12f9b618b3d173cec1967b483ed822f39584f5a2c307575a43a",
          "cad75cf8cffd9056df11be3fede2018507b53664dfd6e60892225bdc91a52a47",
          "f0646485405cdfb4d11bea4fdf0e8ea15dd3d432799bae096f03b6f8c50ccb76",
          "e91a546feccbc9ccf6846ef3c9665229faf39d9fefbe5d51040f09e4a3884f9c",
          "73a5e6061d799370453a9dc80d2de701903da29fd9199ba8b9fbf047b9f0830b",
          "7a4620e540d5f396209cdc17bac2e4a36ac91c3d6f8f18b3a74061a080648529",
          "4a38c7aaa313cc1d46baccd40e456fbdcd737ca0457faa1e65c931ee2f7b3e46",
          "e6ea609f5b6ee9133aec53d1c27e58aa6cc21daca0c7277b5c48caaed31b38ec",
          "074e77fcb4a4de927b5b456c5263ce3c16bf7a83d62f85398daa8bb06a8d3c85",
          "f63a11cdab8d6772d4b34a94c9f04a0c900e279f946c4fa9580665135efef406",
          "3eca30570e58f2d566971605feb93be095851c19fcdcb1d6c0d70ed08f666cd6",
          "6388b2eea2fd78b74bcac538531409f22996cbd2330b75d751f91cd81099d224",
          "cad2bab9f6872c2c41343f28f9665429d51a2d98adca2a2e3151371975d35f29",
          "784ae511f57f9d2b9a0c757181f3325c5d19a910b22e262ed3c446d170638f8d",
          "6e131f4b70004009936c850ede4c5bb5f90a87a58aeb7a7f504d711437d6a9d7",
          "4811e6a3b1d05e70782b5f6c60693cdd2b7b31bd574ee575a93381a822aca8aa",
          "9f113622a544b939a08ded09a93c7a14fb5215bdd7eb9714329bb2d08e21a970",
          "bb32e2f98fa5453190948b72877ef4bf227a194e173ac615eec6aa6a227c148f",
          "34b014b2d90c0d24d38911e52782f00cdaa73c35588dad99d9297fb3d15ca7ae",
          "61c7a10ce4cffd8e8c599738da3885cd7e0b789ecd8010dc705f5d0a57031d75",
          "d35721163a627188dda7ea04ab0caa71c820e9ad9e06fa177bdac7a0190e3f4e",
          "cb531709bb9a71982e1462401a761d9b0de7b0b4fc4b70c81a0901536105814c",
          "214fc1382978956a1cbdd57bb0286815fe989d8449d477304cc401bd0ec9a164",
          "cee8d8cb5764040d3bdf58761029b44871c1d179c0c9936c80f6033a2a53d9cf",
          "c820eccb71bc723da80ba09e262974357e2b89fcbc7b8b96f1f9edf4b5a10f89",
          "23b4f75aafd4dd4769ed546cd206be8e820460388879b4c87783c1ef23c21fa9",
          "de882b1f5473c8062e236e40fb1de5cb32b02a4bb0e3938510a0e5dd7b33fc5b",
          "4a2bfe904d301acf5ddd839718ffb11c53836f11a2d8b197004532ce7304d5e3",
          "ddc3d89864b32da1aa84c0728a691f0cb35f33a2b43bb973ed068e3c7b788b1d",
          "b0e347634eed4da42a3e2d4605abe2fdb428c3e6572cd54888eb8a0826db884d",
          "f9ae40cf917afa897435915c3406a4d5928921176091d4698d9b483d72cb4096",
          "52bbf31d85c527b22c516f6caea315b45530c80070358175e28c4e486d016539",
          "6c6fc1f8d77bda686f313848184d687b41fff9d4704e10645abb6d426b199432",
          "d728d36f63dced68e02f4d727fb1b500541781b960390d87d6867fad501c14b0",
          "bd5426525da9eeea948f7f6615c624e4af73dacf87bce49e319943b57fc279da",
          "d23beee1efb4930410428425bc2491c6f42f7fbee0655f187d15de3aadf079e9",
          "827746d2421163199c00291961607a32e8a49df2cadda3f70b59036d32030097",
          "be54120f77a3acf6e413d252733fb3c0ffbbaca71cb1dcf0115a60c072e40b88",
          "a30219622b0ef4e5d7ce0d3cb4eb6e88622d7ff4b7f3f004fe3ef4c51870c2ea",
          "ad41d3e222bc69792fe20c2770ed1c520f4bca63aafe5bc986fc7f56272b3be9",
          "ae68e151bfd6ca2fd809c20d2851d789a36d559be9292863f50db322b1cbeb1c",
          "c409155597f3d7636201f9d622d446e49e2f0fe38cec7522050e3f3285881716",
          "05bbd8df4b8412f295bb8668a5d5ca966ce44502b647c8e37f4dff2ee2292639",
          "5efeee554f6803115f926be91b0318a0cd88d37756820fcdde108c434700b090",
          "80c084a6b4ce89a8b63d584a4c70816472286c0ba37317040810dd874efe0372",
          "8044f75b80bdb20ddf8d3377b268e19096692a9c9c1738329fc5a6e1a69e42fd",
          "19e57db8bf7c2777b813ef26d561abb05dddefbfdc90352c628f7c6938bd3d30",
          "8548cffaaaaeeffe0e1e01888b519d20f9f9c3b7c7064a6008396f70fa32da15",
          "0a7b06cc8cfedc1401a1b4a07077f6ec2048d643ad27cb7c13ef008d5269c573",
          "10cb7e1e213705ac4924e53f40917c0e0103fac9a1f6a7f85dbe2966a9759ad5",
          "e0b4d70b3fed7409807e9aac39aee28b308c743f651cfe8cec90bc281c29b6ec",
          "a9b9d1d55029111fb39ba3d86a8310d2c28bf36c40e564173e278df24f0981e0",
          "e03c7ce1e076bb7eec94408b14b2528c669ad399b20ea9a061708e025aebb34f",
          "5b67c5ff7f80877030b964e2ab205c91bcbc1a5c05d4615eeaea6d33a755f212",
          "9e27da1930008c72ecf95a05ae3535cfa5f068a3262ec75c1e4fc8e0cac67980",
          "661d52fe41788a2a815d5371afcddb080a8202af355cd75b92bf69e51663aedc",
          "fee2193f310628a344b2dac42ff64983424139f9ef824d57a5324f14706d391c",
          "1ceed7b5d2d0106019afb0069fea9c121163ad0e8da472780044b2841b12dafc",
          "bd505057c08563bcc52ed4343a1fd0a55fac87aaceadde321b35e41542902fcf",
          "f1309d0047deaa173dd953d6ffda0a0156458198f1bb27e20849f78a1acc06e0",
          "5bf0a24f7b98d073cccc5cb43eb0a01f83a2f5906c40e32760a73cb002b9f5ed",
          "fed49e3b9a4eb819e971043c2db3605bd9de314235dcba6c6bb8a8250024a973",
          "333870d9eb464065a6772e484914f72e1f7bef8a2011b888fd799da17f530655",
          "481897d3df9a453915ae9a46cc16678a87a33e0f61bf32a3d73a6b25aaf5664b",
          "4bdb8b51c48016f836c7382b0fe44b5f9689be11f97647360bb0a84c1f647f5e",
          "3819abafc5e3b9b84af00313aeb19b7923081bc726ea1cd0799089a438b72438",
          "72d757e34eca9b38d5f1f1bc36bef2c93ff6d1adc77f665bb8160a1cdb550057",
          "d1f7527fd4f87f09b2dda0119827bd4bd999c7f4ead15a241823bc0e54c91af4",
          "44d72394349dd926f464c70b9d7c6ddc9efee28ac2a9b1e87441baed534928d2",
          "bec45a8755d62c9bc01bde6fdbcd70ba8de45b36b73329b1e3578a37a575ca63",
          "0c77ab7523fe5a88fe0e45e49a14175c4f53120e4f861e05448cf0a36ef4a1bd",
          "fdd29e7380722f5466006543305cba3dabd2b05a0e84d05ba167fd9b4a6a6d71",
          "0216e559f56445f48a62978a8e4f069b2fcdfe4e214a00125acb7b2e90b9bc16",
          "ee049956cb40a634e3288215c99245c214532ee85013ca41e14c3ac74e777940",
          "e1982f778057e98d3c24a2abd2b3bff589436d5c7a5620ef403ccc5ae18b2920",
          "aa80b983ab11d4086b3a432aacfeb2b3e4033ab616b7da5778202003ac94cb98",
          "fca2811fb840bc850ee80d169724b2c97251c44e2958e96964591b2c2ad480e6",
          "0c317763e1ea21b34342cce15e33ed514d062f56755051ece9877b7ac9ebca20",
          "4b865250d1b07884cda417536a99ccd806a898721c2524633287aa940f94ae66",
          "f06c376025327122d732303f1b9c4e1a530a264411208dcabda579977ecec552",
          "0eff2f4da5eed973b6570cc05ba574481dab7e7a88305f0353d49b3a5891b347",
          "322e9d92808b63ef3b093b1d1ec722918a889c690407e93963b3fcbec3083aad",
          "e592f0e72057f6ffed53467b4352ce04ec8ba76cc34b2a4f96e1cc519c5b76cd",
          "ba3a324c28ca4f81016bc54bbc656bda05a4253358b9b7c6027477585ffa6038",
          "bef893a97b69341f7c91f4e7d566ae8eee5d1f7ee78afe2e61c4890f583ba4c3",
          "df5e2fbb6ee04edfd6817475f58811f60eac126379f295f44b4082c3ee9d6d32",
          "c7302a7d29bfc991ab1bdfde7bf6be0229708412843a5daa81f9333165806574",
          "16e93f87314daa1561dcf6fc9658cca2bba0b7bf7289afa48b3fc8527743a1ff",
          "19537909be24560edffa8d6c20995128cf7f5fbd5485536b932eea8d67672e34",
          "516cd1be48b9241e9d225afb86959a7a56b353ccb1ab72d1d27b5e3b1d7532aa",
          "4db7239a980de015b006a08af45060788b6663d775d8778ad5f423fbc38278a6",
          "f82e6c7dd790319f96c91ec2b374fdfb44d68e83b80bdaec7790e20f9c6a0587",
          "840b4f4b5cde44036946318bc0ed9221bee8e2177e7ae4009b1d382ae5edb3c3",
          "e2ce44f67dd83e8a7663ef865d46426e4fac65636b4c2dccbe259e80ea99d64e",
          "db5c222e3adab8b03bb4e11f876c0031ad3c487a0b81ba1f9ff718487e8a1c89",
          "1a967fe7cb9b4db218448d9e98a47ea77c5487d27f7e2c47cdd41c414ef896a6",
          "6032af4f966ecff9b876e2a597601be585979baf0ff8f2c52c7d05a51bb1293a",
          "280f1a1268d6ee6f18eeecbc1b63b09979dea47df2b1f22aab535cf32319b1f1",
          "d0dcd4403f5e897375da20c76a1dc7de377ac211be98bf36e35995c29edd3d94",
          "acd99df1e82d546cd1f2a42cc0a9538392e3e75c695c7ad1aad4d875f576952c",
          "0e6ba25e964e3ee842f5803e7c8ad6388745264aa244ca86b3a85474980afcee",
          "fbdee47449244b0d28ad79d4454f8247edd409ae98f53a30dbb0cd8ce4cf3924",
          "5a0aeb2d12df3bc4f66603ade1f59b7f0133563b14b1f244c375d5df25144fca",
          "f3392cbaf3a71a30d36eb08c7c0d5ed81b013e42e0358ae92c8c0a8235d05a7b",
          "aa10b7de11082dd0376c35d989f90a0875904d06cdf4a8913bd95cdc7e1bdd2e",
          "811798379c64f8b8c667792ea93216aaa68439596fccb814db11cfbc043609bc",
          "3447702435780eb61e723e42f8ebe4566170bcedd90cf859d79db9484eeba457",
          "fd9718d55d023239619b08345ddf8fae1727e71b6addf38c221092bb81464127",
          "581ad072a9a95f3945a2ebd0104adf18f2bab638672a5f77e4a3ddea8e97a052",
          "a06b4240adcbf7a25eff0111c7707dca81affdc2927fab7f8f60240570b1b45e",
          "883b6b9864c428f1ba603c5880d471a1e98979082956351937d2e888230ac9e1",
          "89568ba0dcf2d7e643d0ba7976dcf8cc179ea154731aabd92a7cc066bd0d76f4",
          "68238153731733ac83d748b41fbead2ccc856d9ab150baf92648f273a9ce3e7b",
          "6a6824a7829e103f2d8045e8e7c7debc616765a022d01d9fb8a76f39d46420d9",
          "e3b4c60eb8c12de6febb5c3fff0c2490e3cc83b925077bebae8b08fd51ee26d4",
          "80033fc59dadf8180353a03be650f349e9070a1594f511daf4b034940fb35e3b",
          "974a13b0efe3f9a8d979d13d063060cee970c3f245e48fa647581dcc52f8a7d2",
          "4bd1028473e927c9cde036c05cc05c40800d440156b0e5002f14a45fa7ca6d2a",
          "94a6e3720d0c463b8938e654cbc845ea62c9c8f9bb54ccff583ae0543f64724d",
          "3f414d8ff13dca2b8b8b42c8f24936ebb2310c3fe6367cb40ff531d78473f074",
          "e45fb82e6721b82c078dc1d8243bacd6f2023f14aeaf0e7ddee6e69f2a8f460c",
          "ffdf17f5a00ecf08e2419714a341e4350ecb1661683420da2878aceb02995dfc",
          "7eeaa5800967eb40a25a0145b0f44cd01282621f8e276a09b41d371db5bd86eb",
          "3b054fa4b4992579e5da368229a56792c29ceb1bc9b6b894d7c4912da7b85f52",
          "35ba4f5d324102889a0dc257ef499ba1d404c7c068c5bec0fe78f0b3f6bdbda5",
          "306e99624eb7be70ba586f2f77c9f3242f01c9c34d4ddbf34dafa9ace8f21f86",
          "2776361ae24c52d15f9f4ef3d81040526eca54f9a88f4129220d783b89135a13",
          "3424f8a4ade25a71635395c4e7179bd5a28ca953a876af2f77ee89a784066e5d",
          "a998ef497c218d7b26acb5a0317a8960f6f33686ba0250788403b4de59a556b3",
          "3e047fc01ab5b1f015995c04a99612b8ae0efb844754096568e34ebd0fdd28b7",
          "3fe92643f0e11e8026e877500c5477841ecc5ededa6e0ea0035f4bf0627fd083",
          "a9dc8387cb9e7e632b0a5cf2398c020425622ce102475699a2ba41e22e09e6e8",
          "3dab9d024c22d543361cf78337568f5928e64bb185f2335cb699b5c8ba92034b",
          "6b0f1a80edf7d5002047949bfded62a26d4127ac6941a10be726cbfd91d26f0e",
          "97246aa6df83dc358beb202e3776c17561082a6fb9007d60ca6aa697e2dba155",
          "a3d6dd176328351b58a48a6d632385a078f34d1ff1defa1707414aaf7d153479",
          "21268ed72b1a741e0f83fe813cf6c0c7505b6a8c5688733fe94aab45af1bc2fb",
          "a1286dbcdbacb83cf12a346fdc5f9efbad74041c784986988e90580e5883bc63",
          "4d96092bfca75f32833e7d0872df4eb1e6ebaac9427294c06c83e437dacdf543",
          "17cc67b5e261108116acde2f0f53dc5d946fcbe6d4a2cf6b3c256c05acacf640",
          "5ae23257870be030f10a0681dbfe6ea256d66e147bb262edb8ac4fe22ad4e589",
          "78c4cf153f5c52e991d106d264d9654293ab01f3e64a0006cafced6de68532bd",
          "b78303e624fbcd94e6db51ad68c3e587c0cf7af94db5dfb8e8fe4ee4a8baed1c",
          "052bb8c5e558fa2b7630ec3b28cbb0d97ccda5d3a0bccca97f0b37c0f6eedf3c",
          "b1f105c8e4e289c0c2ceb82cb9db8906337e9ce0a084ecd1cd91178d9148046c",
          "e84e5a55ec2319a1711aaac0684daea57a97e149a5e856850aa4af38fbafafbc",
          "effa3d9abbf78e9426b9f15259615437092d7f41209571a0359cf8e36d3dcc4e",
          "022ff35a0d1d481aed4a2da9ffb45f049e37d783c3af79b4965ad704e3be33be",
          "e0ba481e02f9bb4e1c895fed9cf7614347204f3a213c1301b9d8a4a6c70147a4",
          "1def64ca2e79158f1a510a63b31ec7ef58a903526a7f77dc57fe4fc218869199",
          "375e1514fbb643d40d2f1ff859edc7d10b037fd9b174ba0cf4e83a2ee3cfda21",
          "6215b048ff60b3a6026e0421e3023ca0d7a25ae05e179fddc306693826707f96",
          "92a50f736c377654b3bbfdc631e56728de7104e9d3f23103d8ea41e0da1bd207",
          "f5b20f66a1f026637dd325964655aafb2fe9fd5d27693a0bf8c10999ef2c6ac9",
          "a70db84f8b96f65ba33fc8a4f287aa2cc3b71b4f0e586fa2a8fb1322c7ff25c5",
          "f13db71fdaebed5fcf3449f532d74680007842b9d7ebae4f5337fef5d9fb5da4",
          "139da0e864e2d85d5fa56a19eeb013985a5229f12955f3bae3024673185064ed",
          "8f46ac2c87c6dd931375fb98611eb7c2fc5c28b41375bb02580c49fbd01176e7",
          "58975fd447b0fc60e2af452432e56335e1967f2495e4340afb6d8771eef2e233",
          "b384b481a6d00aa0a6c064e106fa6d901cc5f21c01c85522b7472e289b6572c1",
          "f68f25e4a5932069c2ce0a316349f0eddac674ae918a216bcd8657f7c44c415c",
          "c2d730a27c7eaebe15f81bcd9bc55cefea3525361bb8294bd55b95142e526834",
          "918e88912735a41ec661536d100ca3e8cf4c53b0ab8bb8367f7e14d72694b556",
          "5348361f2750b60cd6de7356aa358af61d730418dacdec0e57135f13aeda6947",
          "d704222ba3d5659f2a0b665c87efb3ea8255022e6cae94ccf0ed4df10e17c873",
          "e5d075abc6e444e64aaedbe7dd538bddc2fbec225ca9c52d2b2b458295527baa",
          "aeb9370dfc248c14adfc5e9d6b270fedaefca255cd033373db92c1efae6ec802",
          "a65203da33d5b5a9c0a1224e41c48ee261b5ae11e0495751e0a67ea67d8aa2dc",
          "2e69f09601a93bf07d2dc07884027803cce3fb1dc175a561fc0da7db8db138c8",
          "75374988d1fbea78aa49b32116ccf1801b9dc9a830aee4abc691f86397ddc614",
          "03386cb2a3b4cd4ffd145715d0ffa9a0acd567f87db2a14c480f7b2f946b3762",
          "cc422888029477cd74eb13436aedeb5c4faa1f6b8c99e99683aa1e175c4e3703",
          "e3d9e03a704a90cb0146f1c3216d69ee1df30eb8c17991750d776ee59ba4e78e",
          "ea8ace3f8417b4b40802266bdaa0dac8c4fe5b2f0415a917210611530669332d",
          "2fb3dc8da80093ea6eba05be140a2f3498dc574a7955d4116b4a8628397e89a2",
          "b54f9572eb3501309d5d80d360be523433904db745bafd96834f0f9e8a4f98e0",
          "6f36a8a2eeb6b78d77ac1908bb64cf372d1a4a7eb7b08d1acee1215792dc2895",
          "abba681e35efb63fd29da5a902e4023db99b768e9a1058d653506ef90c9dfebc",
          "78d1d66b35b1805e429dc3d8053eb4bb8a6786030eb50f65961dabd5c5a980e9",
          "4f8cc1d1af9920dfc0af92bf040e79991cd1c9918f0a0d8c4ce6d4eab58596d1",
          "2936b5cee7f59de629d038dadb2b01cedc9d8f38fa77b056d4c506e3b9093c15",
          "e0d2e00db5323c7ef4e16de5990bca11c537e58e2c10d181214992fa603c7af2",
          "ea4bf59f0dc1b001965196b3b0e3579dbd8630d015db66e7e164b30eb8e27753",
          "dab9e76fb17ebcbd15d6975ea2240b716c211a0eaafcd52acb8f334e807be46e",
          "0876c65845098038d908a39bd3ee4ef2321bb135c8a0dfb7a3990bdc61fbc626",
          "7543fbf37af5116fb61871311cb5fbaed66758d9bdb621556ef07073c9bcc7c5",
          "24fb72c51b59b00e200518dced50a322f1e5b0ada163086603866e577b865430",
          "046ccb7692a1e6a3dcef1fa76f33b1046095e862593a8e98b60b697b4c7f5f05",
          "445b542d65589e323720a33d5b649c4ebead9bbf65594285bb65d59bffe48df6",
          "7b062fff1dfebbfd0c164c4e4d32b0607796cc6cdc7732bc2890fe9d27c7546d",
          "234ad9eb051fafabc9411399da957efdde81c5bbf4455eb3001d131317e7fbd8",
          "b72379e4c7404e95dc743bec83d8160e5a88ff3ecb9e23342abfdddeb01be85a",
          "59bb6455288ab061259683085d463a0fb26665c0f197f22a3f0acd82d6dc21ef",
          "9e42b1235743c0cbae279aff335c43537dffd3bfc0636dc06c49f28fc3c0e384",
          "faa3cd816af505f04e678a81ee06f086bbfcbbda0804ee1dccad09af6e3fa1ce",
          "4854709d6b735929f7b3d4ab26afe1c979b030608a81ccba8e25e0582a8d82ab",
          "0c17cd26638ad25ee1652a68faf4ec4844f8331bc700f80ecf7cbdec6b24b8de",
          "9ad1deb09cb1f71bf89e55925463ee13118ace6bc7119182ed80cc5134f865fd",
          "86ba224e494d7b14ab7732916378c9c2401621f82f13a666d22079d9bd72c5b1",
          "0f6f8d7d8a7b58182959545486c0be7b556624e9f9c69e62e896aee1d4809811",
          "bee582e0998ab1a97c75d1abe2ac809d436e7b55206770081b9438875fd6fec4",
          "ed975f330df1c86b7f2ec6b9823b966e5c16f0832c6c6e7be20f7b86c6436ee8",
          "37638c369475fe907a7e985da0c9ace8184ebe5e62c571f528b93ca26214b48a",
          "0db0d2b6802df5ba7c8eb8c9dc55bccd20532114afaef6ea68cca1bf3615ccfa",
          "eb9334ce2dd7e6b93c5b55995b6184d057adc6476e27de35e28b3863ea1c15d5",
          "1860d114a767e584b838ee91b5d2f603322e39664d6480b110306d31cdf3c815",
          "92f477597705cdd14fd00b78c4be7ec1257376537a739019743fe302855d678f",
          "49116750712c62edae0d3a4079f993fbd080d01c9fee17ad334ca313184b9951",
          "d28c8f40671338561bf26f3142f86551bf79eecde14baf492f5f595fece08bdc",
          "5458e1f9d9a5397ba34f69adcb9e8fe2a197206c7a6527eb6de6d7b19e831cd1",
          "a200b6e29987e6ca04dfc1839a0d1c5ac1499598b31bcfac19a8679413647c30",
          "7d323aaec8ba9c7bf68be9678d7f0bef9a93f69bcd150438c50902e71e8ef5ef",
          "cbf5e763d4b5f0bf7ec6f118ebb6af424adf9213fde555a9351592341acffd82",
          "7e6f1381ccc47b5026c05e6004e58b62dc9bb9a0c89c64394850ed5d8cca1aff",
          "6b8932f0548bd5985b378f6b71ad227e06347af23859022c0380bf6b4f02dbe9",
          "3373ec29b504f47b757bfa876d814927fbcbe0a1223b9b69604b2ad231b227e5",
          "fa583ac303107082074d91396032daaee3d62e883963c57d6715cb89786f1d47",
          "e5e078e7f3354ba33d7ec00d0adeffbe1fa2e3476d9de2758b3bb7b4cd30094b",
          "65d91b69062ed30c693ce43b036a7950afc04548d21669bf45ab4dc6060d5ee7",
          "fe36fb30ded79b167b99ddd518757beaa7abf3fd21c77ed8cc3d635a1d342b40",
          "4907d1551c368512c454faeabbb4a6c5fcc4ca267abbf2d7e8369de6950dfe19",
          "656fe0da44463eb6c064a4e1fff852e361e994ace097b3c05c48dba1047530f5",
          "61fadf64b2d92e938d4bbd8fd5701d1d925d68400687f321a79a9bcba0d218c5",
          "6be7a00d60de26313310a25a77b151d7157987c513e217de9c5299f519bde5f1",
          "19166c527ea52ceea5e71e0cd6996f84716e13ed54beb1998eaf2af1eec54bd2",
          "3e32f64a2704a5af9261aeebd93756cf60f14fec86f325c1a791dbf3d6efc906",
          "e1d990f79f7612f607a037edacbc8eebced47604a148936e0fab88d3d7f71fe6",
          "929ee95c438fbdd8911fbd8408c3d7f47834d30ebb49830db9bc9861919e1dac",
          "b6091ef4bb3c651d78c3d06d37ce2ac9feb8c19d7e2752023386f5504b92bea8",
          "35e46f2cfe8b340acf4a2760ddbfdf53f1e5bae15f4dc1c312e2e1079d428748",
          "6dc40f41b75dedfbfca1f2b4626071d3f3a6bfcd56b821686eeb5cb57970fb32",
          "cb66eb4ca178a851362ad972fb105c1476217e1081f5009ad30d9e638bb276df",
          "16310e3944e950f4056b7531d26f79ff4e374d0b14e9b45faa7b7d979bab3141",
          "7f8e211debf9bbf41d80f8343a9576cb2b545ec953249abe1078efd8c593f0b1",
          "684903d97e4c667ec9a0785c28f6f9773a49759932f46c40ef5c7faed932de37",
          "541161e0d7916c7ad0c58546eb412cf53d3e5788dd8ec88585ce4c4348b71c45",
          "ad0a8c60b9c7473491fabea35bc3e8fc63185535ea51a14886ee2a9440943f34",
          "ab6d2f83672b89da9222ece94369f42af3248c4a0cbb61a9637e7d9a5c7d1878",
          "21eed99c4cf5e064318c831abb3828859cb216ff402538db5cdb69d6bc7bab07",
          "f6ea1f6cf39dbe7bf496a4dbb95ee656f477bdcdf3e5f95f9b45c4a1d40446b2",
          "cc351736a8dbf6d5cfad95202f533b6226d85fc556ed63c9f6113b020c1d2c61",
          "26792d137dc594980b84e31c3bd1bebf8e8587e44b059df6425c084a2418a04f",
          "903aa4d6edd21591872e7380f374d2ec90feb933f8412cc1295f058a29925852",
          "7b129e9420dd2af32de383dc4dcee91448e512f6e0c5c103069a5cfa6942839a",
          "a6ed75c07adc9b42e66a75a2bcc73ab0f3ba3ed629c58e06e5a742d9ad1a9be8",
          "853a287ca56dc88a6c55b296b6cea8a5b3c5edcb31951f3dc0e2c666f21a123b",
          "0c08051212da435928a70f70c4e190ec64df607d184b6e4848f980261d7b6ac2",
          "c42d3055e77c65bd28ad91ab7a18a8a5afb63491a3aba93a476834ce4dd7b02d",
          "1bf0d6b583b36ec3dd61663979c3f1bd771687064d622182d2af797272a4ba38",
          "221b2aaf9b896b6fcf9f0d2f4712d245e901bb2e0456634a409ebf311420effd",
          "ad368d93f682e1874f1e783122a77b8d6b10ae8ec8b82d24dff9fc63aefabc13",
          "6aa2b4a37ede73a58209877528c39e3803edff4ce9f3b7301a156d4f5b9a0d34",
          "c01a406b1a4aa46ae69aa65e14fd87de886c614585ee3ef2ba76e4b204cde0f5",
          "ea0e6d110458a1e2083663808bd4beb622a69fe345cc49640291e9addbe0be03",
          "eaf132f912eaee13008ba13bdcc65226402308f0b4c39c68cd4115d1524420a9",
          "5d99d4d57ae22159ad4e5fb46723d9223ae18e6685bc30e282f590add54c229b",
          "748e1528355cced6988776b2689808d4be44173d35702b041899202115090c70",
          "6ffdaa6c04a8dbaf1157b9398d89207e8a1d1c61013dd3883ddc7a80bac8b6a1",
          "38f2beed0affa69122950ef7c94e4f2c9eb12a0eb7750c92f414311e3b53c365",
          "a4682369f463bd1360ab52665f4af8d42a8c032e54dc3af4d12faa2b5402be86",
          "b0d9701d14813c8bbd74b199f802f143aa6c5be700b5b670a188b8c4863fb8c7",
          "4023544caa0a7355fd0acda38ec63e27e46e0b834acc53c7e17ea43dff900e6a",
          "d7878ebf33291023bce749b93c821647c1ca6ffe31323986e511a05f8610d527",
          "6f9f7ff595968c39b9ec5c58c99ffc41a7c5a3420bf703deb1a10c181c722fdf",
          "08b2dc4dc47369d956490639d85af98aec043d401cd240fde7841d8b467d0099",
          "815e2daae816778be5bcc6054bad6910bd77df8ba1559c1931ca6ce112e14bb0",
          "1c3be73d10cf21081b37b1c5e01a8aa13c249283b77fc7806c321a9ab4dc2fe5",
          "3a93f6c3dd2780d7c9704a48f929f4250015a15bf78474937fbbd279d24ab36e",
          "0a931888e59b7cb9097e927142a543e06445d2db54704911518124f9ccc3a41a",
          "8f10ee36435af22952ce2614f562a33d304d6fbead69c3de782ee2e4aa1affe0",
          "2afa5c131132e611e18674949a93faf154135cae4dd3b0c852c364e095937048",
          "3ce95cb16a8d4ab9714e6527d6090249bde7624fd00bc2d0a8e150f119774658",
          "68d141b0ddbd56d696be6197ac3bbce9e32b36a0d7cbc4b5408c25dba31bc652",
          "4d8d64142fa63b4bc577c16552ca9f4cc37b0f9b5b4fdbdf9d2ea751b1e5ab2a",
          "5878ee6bd2cfb3942be2d856223eeb3f452c95e36f66d4d1744c151a56dd5ba3",
          "1f2b2891697daf9637f02e543bbcfd7d30061ad4b608637a3798397e12cacb91",
          "b8f822c905134fffcb8da5ad97809a8fd2836ec6d7e409632e3d4ca13ae97e63",
          "4390f38a30bcc378d386c9d46fb197de38995286f93bacb44e4207b6ef9af5c5",
          "6b8d7126eda478686c0c9ed9f2629211ca29452e7f65ad61cd8aaaebbb8217c0",
          "b04839e4856a02b22aefbdae1858c193824d5eb4009bd24488a0cf6d0a7c364d",
          "0a8b0ab648e7cda9eeb680ec2ddad45da216a74cb61e9ddfa9745b12b063355a",
          "8c2ce35db26d0b90435b506ac943e3d7f4e70a9d2bc631fb8ebc6ce25cbeb6af",
          "fbcca79bde440ee2e3254a0daf38b093fc8910f6d7793045cc49bfce7dd7863f",
          "74c49dc1ae12331cef235fe657659faff7c4fabd40c22c1a7fdd04f92c329447",
          "5e0fd05d18040ad068756430bd11ec70a47111ffb7ef1f84f45409a677192ee1",
          "1945a6f8ac2f9858948f37a5f939a3416050b277671d9c4b74aab62e83670b38",
          "49774a989fa12000bbdfd57c97e29a7008b4b49f80541e231133bf734c420fa7",
          "a9c310e1f2c56a7e99afed151f2fd980801fdc0a192e1a0fc8c6735cc27f399e",
          "e040f3ada8b0cedea5f6e0c96ca1c9b67c2ff2c588b933612dd577c006beea2f",
          "d9ad762c544176b70d901c4a6bbd7d6e30f02f3193326535b89c492b7935172e",
          "414337b6b0af445e944e03b1128896004731edd9fd87668304d6a6c53618a1a9",
          "6012b2fd07546c0c73a03882fb282d368e1014631685461e0801650b1c1eba80",
          "f4dbbb5d9ba3fe0ff47d64617eeddda355d06c36aa2003c202ca44490a6b54cb",
          "bf317122da77aea1dd76e2936be07e2d598ccaa1fe1d1f151f5ec12c6dc1829b",
          "ec43c0c2a059d4ae364e2f9657b190abad6c6c01854567efd30c2f01c625ea0d",
          "01c9d7ac8a44901cd7877b11c60946f73b18a4729315e239adcc47ee12c77368",
          "57641c10ee5abdeb5706f0287ca7a86a0778d607f6b02007e7d2e64f5a8b78e7",
          "41f56d662968f2bf97b137302193a94e380c878ae8a50aa0f6b41a5586444709",
          "6d15718ae50166660661e66062407828cdd8b982f005f7936d8d48564b334e25",
          "a2a3c55bece338878a6de583235723249b94ec8e3663edce23f0fdcbc0c80d47",
          "ed36a0cc19a77b6dd62fcce09d9c68937a1d31c4ae0ab8d33593d934d1896935",
          "5af3c1c8c8696683c36b04470e3f6742c57e4bdcd9ad945da0f3591460970a81",
          "f312209036cdbee0829c8c9285fdd2faed5ff5c99a345c1c39ebdaa42cae37cd",
          "9cd4bfe7ca868501a63cfb2ca87e3fed89841af67a7637615492561ef580d91d",
          "589b341c9dca81fe2d62024dbb83dd446a253dd87519f51ff82cfedb2e89d382",
          "dd35619376b29611b755413f1c9aec445d76bd7058ed27da7b98f045038ecc0b",
          "0869602871ea62ea7351f11fba07e246f9c9d4e5e8781f85f052ee141165fe3d",
          "3cccc0cdf2cf30c85a50a2e81ad645847125347a8638c575a6fcb1d54e95527c",
          "e6ead4f564b966ce06371167fc7eca6d084d6dcd0e859e85f556353557abf635",
          "3e42c41e571097e5b542578f78a9aa24eec2e02fe50290e12d36dfb1c6f5d1b9",
          "59c9d632d748a88e14babb24dbdc1eabd8ed412f8ce3b2628faf93fb46308ece",
          "07e47822648b89eb11dfd73c17928176add349fdcbf05d05a164b3f6b140b986",
          "3e2e9bdb2c0adabe3a1a8a6146beb641a98b82f05c08445bd161ee4bf532e660",
          "80ff3c48700a67183bdc01f9479f1e98b1f3eb6604d5a0fc068097f3ce27064a",
          "1bae088158828c2461fc49408540b2251966cc9ac17bcd8d6acc1f9dd39f8194",
          "804a88c34b50b95414bba37fbeedc748367dda2646560a4a192e203a46df6787",
          "59b8e0d801ea08b3a488f2925a4e429026119a57910c4a5866b2a14d9bcc537d",
          "14ef519048064f60633aa2b2bc74d72c39d7becfe5379dbec8d3d16f9432a75e",
          "6deb0a5b2a863a77d9796ab71d95e4f6c8718e9e6a7c0d3f76d0f1f0e10fce8b",
          "87f3a8585c56f50f7361d49313ed712dbbc13847c14e5e82e31efe22ab731c62",
          "ae4c0508362f19e0f4698f8f2d76ebb3f0815087c1874264a0309335ecc39ffa",
          "2691c2437226af7dbd534c0c4e9004dc6223cd838f7fd30e05206c464f0d1483",
          "48700037adc0da5fdf696b9a3519c59e7781b652ce38c15ec9aca95b8e5a7e5c",
          "ffb337949398973007991df72e3a05a42b9ca3182acee87c41a6de842153b824",
          "d10b6b9e648cfc9c496e6cb641faf0b3a3876cd900a08a451d275ac6ffb81931",
          "d549197dfba5ffaa9b098043b7f6f68bcb7ce817eaa32cbf9cbf487b7a606a81",
          "da3a852612eb3bffba055c2f12d77b417c66d9b2ab20cd55fc8ea5b031de3f66",
          "76136de11e8384383880821efd48a92d992b517b7d0c38b7f243147b0032c907",
          "cfacced44ef85b5874e66c0ea17bfaca58c6a0902072d0462845fbeb0613ae7b",
          "3c4ff5c144fa87a48175a7598437d4f5eaff7dba7235c86309d688d733f1608c",
          "6a15278744c2a396bf4a6ffb86db882fd663cdf9d44f502d32cdcee0936b64b4",
          "4e4e0e1fb2ac38730855e4d5ee87029a2e365a1f62734325b08c59a3680e2b69",
          "9a6a4d0a087dcd17e41a3ac66b995d913b85fefe9350a9da6b0aed7cd433629d",
          "5fa32c2e8de57a9237c8c21e2fe17a1b8dcc9b71048f093677cc532c0b392949",
          "689935d6ddef71e6ca41d49ba7ab82fa8f3c71a4ff6d663b7925b64046353bce",
          "745df04bccd3c31089ae0d129ab0d86ee88ecc5c35b267c65ee3fe687b374f81",
          "c1922a22bcee20ad78fda36db06ace00d3c97f78cbe1a937c047474fccf91f40",
          "60858056002b0e796d0c02c82320fd4ab56041f6f1010cb8b3c7212124e4bf1f",
          "ef9f54fbdb0f2e9fe771c44679ba576d12d6992c8911a49664dd5bb896591f4d",
          "d240abab802a65db9a12f69bee231179eeec6e88f7b6810d7746503ec4ebf05e",
          "bdc97b008ca625b7ce3fe2cda45ca894d29e2465b6b19b935efe1e9c2abc7a91",
          "10edb4045dd4ec4a9a067bb1c17c7cb85eb783e82c2bf2eb854ab40b3ff33a81",
          "fea34e6c1484397b850acbf9c928f269e2bba76dc338e16b1813cc44fe047cb4",
          "01307196841c9698f0ec1206415e675ddcd54d78f4af4ea91feb38ec6dd2c7f4",
          "7bd71c184070f5f73460eee6fe27d325fdd88041e7367384f09a3db2d31dc1e9",
          "45d78cc36cacb8b0a240a9837a82fc5a9d4d152eaed6e2e81fc7d5e4f716f54d",
          "de27a6da705fc7dcf40c48ec94147a1d83e25fe05ab17639e9ad85dc5a46a137",
          "ed2dd6f841e9c9451260a7c19816d9aa7601262c03cf78fefa4286968996d246",
          "5cd6608cfa428445f487a25b59b4e3e47fc1de7c765d690fab9ecb6fa91e4f7e",
          "ae4d70c5dc1eded8750887fb6eb7f8bd32b272023e389f94c4b8f3fed7f9f3c9",
          "9c2bba4e3f8b9f3cd8795d818568b075925213b8406db015d23fc7ae78320e33",
          "c7014fbdb1bca13cf4a46554166cccac559769be699a58f4102ec0afb8409034",
          "1c6cc48f041cab123fb2479e89dd6e76481f1e5879a5985ba41efc544dd48d06",
          "9ecbdffea5ed399263a65eda9b40d7ac8d07884b10a362df13ebc4401faf20d2",
          "3f1c8079bf8e83141e08ded9ec91ef54458ff51e144f0cffe00ad7619b68fb78",
          "9d5d57c11a89293809e2cdef69923fed7c7c9a049872141f7cea5bd727d6fa71",
          "b7d5e2c0c62a2f3ad7ebb89126780a4b42d968be39faa54d53a58bb5599b0537",
          "df7841863f77a6cc475ba843a61a2cef2f3f255cd1de539790badeb380f48d71",
          "81601415be7ff4b7c21da21d745001ba0cb06f4af4573ef63d513ae6b4f852fd",
          "8da95afbbbc641fbb5b6592153d6ed9a41602941327aec0b1a006cf32ffdbe6d",
          "eeb2b321786a9c6daf50d0f4c30ed82077bcb9b257a22f2260091099c6db0207",
          "5eb777daf07d144f34517949562a23c611d73aedba9c8bfb6a55ba2af4fee151",
          "0fc4bfaa0e39b0a00d720d8d52e8ba18b70472422c9e60409a756810eab77810",
          "3e91fbdc4a49477ac7bc1cfc6aadc4c1a12811996a0821709d1fde2299ad7c43",
          "c79155a0566085cb3c8c98a48aeea613ad471b914b94a26096efd761bc116614",
          "388f7211cfb124e3d8832bfb1ecfe1917bbef61e3ba7fc501368c5a406fbf76b",
          "5dcfed816de8fc4a838d1e8184c4fa45d8e034ef8a51cba3687038df061226c3",
          "bca75800004b02facba5f9ab837626c9e2cefdfd257c07cd0c170d5fbf28d277",
          "f9f4fd7615c9c4b1c3fd02d9a06886b6f580f5d2366005c23e447af27ede7af5",
          "5299421e5ca4ba70abe6e806c43cbc2cebbf2fd03119e2039814da7a922970a0",
          "8dbc5954d13d8fef429326dd4397c5ea4494d64ed58e15a5fa307f23531a8757",
          "7e8b275425fb126f19908353dac79ff7497517a6f73c8e9ae881b478665d898b",
          "3cbef2d540a7601295b46170bec43258578f4c2aad11ce03b1d5663f6225f7b0",
          "1ce0504b40d76d8a06d3e3138fa6cf15bf88890c7965707cf56a0c918e5109d4",
          "bff4d061858e79883117129c42ff96777529514555bc7b9a0ee343470b17446c",
          "77227d87d0c37012159bf1190c94538394e5744e9e3f46d8ba6541e604ec1611",
          "ef9319084c677849196985328bde60685b42c2ae9227c22b4160af3bf0b9aca2",
          "d86991f32e3ab221b47a75bc6b5f9db252f531d838b955a43240ae26076bb010",
          "6cae981e08d0f62970620834dc0fb497d218403e6132d86cae0b712a56df1922",
          "fd112b33b9c40e02d76813b4defaea75e48ad45db4547bda347e4664fd245db3",
          "fee584a341b8a98686f837980b9754c5f209f25693603d1855b44510e7339742",
          "7eab2e6c4d33bd588d1263fcb9d776637fbf571d7d47f4f08ce343cbf49f10f7",
          "89dbae83accfe7360aa0082053fd5120a883a25109a219208038ac03b99d35c2",
          "87aa96e3c11a0f3055d414966679d68ed985b850fafa922511802f33b526ebaa",
          "af3c46a12ec3084f40323145f03e05d8f3040e32f8912623630d2edec49278f2",
          "305b80c5025e45d9235767f94ef14cc66aec9ac140409660c1c574755ee56343",
          "361489a149ad71411cbf89f6262e0c8cf99a97f7b07ab6e25dfeb4b56168579c",
          "7c86ecc014ce2875c223734c0c9aac2ca04d448ff822dfdfe88787d8dd962510",
          "e5daddd20711e1c0baae9ffaffb40c5bea1216091bbb9411d6d7e4c7589989f8",
          "7d09489ee2161116c6e85e5fe254b3aea0c3b6546a64d642bc21f9de4786a3ca",
          "eeb13e03229c1ce97b45193f2a42ce76ac12315463b8aee940ddce1a5e722e60",
          "c02e6023452669493f89beb53987b5746e1ccf58795262474e3ba8f32136cd38",
          "7b25f52285885d5754afb5422aab9b40883edeea3d44acd5815d0278fa9dedf5",
          "541d9ceddf40fc4040ea3cc9dbe1c6e9ad04d1c254421e14e057c09083a9806e",
          "950b3b24fb312829dd823427e3bae1dc3d14ee7d48132474bcf1618d8c8f2dc4",
          "b0be3b4b10296159f0f07e89e3a68fe7ff68313d26b7e453bea824600dcdbd2f",
          "e37cfcf71a0d351b46269b5e1ca7637a39f38862b64c58db257a4b7797cfc76c",
          "63c24d9738b94cadf7c17d8e5e1c1b401531fb928ecacf42e4f8ffa0bad18f68",
          "7275e6011dc78e7c05d10186884056f658ffc5712e19c8e1546ef7a095b232b9",
          "841b8c3fb60cdb472b55935033b2040d4b8a6e8d91e3139b5c35029cfe429d1e",
          "b34aa4a86f1293d6f0c6a58642f5b4051f9a1913e79b5285796d15e6ab9cc93b",
          "9f75fec4271a25acae2b27092e77c83626d393492652a3e0a60fac54080549a3",
          "ecb32435f8f539e7452e5c9b9ca789e3acefecbe27ad34590aa0a7cf8d32b6e5",
          "66dddb73a5a5d2b99a97a244f99eda37749df4cfee0481ae3d379b2d4af2c154",
          "1d6dec7576aa53694baf8eb6940422ce731b48f109893d65071e87ac4b026d93",
          "49f64a72cd1752d33231e545f92477f68670cc02ed74c2942b8e4f91e4ce6dd3",
          "dbb5edb7d67edc71762d33c97dc755c895baebc669c1eff63753625cb73abe91",
          "d22e49634fb3fbf061944e678c319f37b5fd221c1ead974374b599ffee7d8061",
          "76697b3ab79f6a28f161ff0f0ea0f469308b630d6fe4eea3629b6711e809e80e",
          "8bc79dee490a29bcdf0cbfa3a821e754b44d463bd2d88181d7c784a2b0798ea9",
          "452c3d8c45515c1588c63c05016d6f8aae92489e26a0e173d98bf86a2781cabe",
          "3eebe7e32ca31abae76e84e72df5d257533c3e7a78fa5a03363120c5591d76d0",
          "4f9dcdc02e62490a90ae96c8a59f5fe175a71cac420038a8d03a5f1baba498d0",
          "17603d205b63e64bd7134759a494864deb392f0b83b320e939cccb85b2b19f28",
          "b762db3f082c14bfeaa74c7f643cb34407a61226853e05a133cccf9adec2cd54",
          "89daa8d673810908a403903ec776c3e46f84a7798cadcc48b58ad234b0388d77",
          "593cfde7e5443b41eb80a530a9adcf6a8210f9cb212fd5f36d35fb28d62fc4e0",
          "de0156ec24f537d0a712316121fa42244557491e3bbf32ddf64050cb1b85d6de",
          "57b3ee8dd84b06a69fc640ea1ba734cc207a7c0f088197520cf402aff940672d",
          "6ee8d69c9c3b02f3d360ffacecc9783bc3900c0dbaee2aba4fb44383d0d96645",
          "f7fb2f224d13da9a8d4fcad37d30203a30354a06a41b12776d8cc30e609993bb",
          "0bf8207cf4ac4a07c13af9537f4a6477f674b808bd5a23640eb79150ea187d25",
          "3d4e9acd24c29c8cae218c62373fb310fe8dd941bfeeb13bcf9e289b32786269",
          "9aef656dda7ace33671b2aeda3e39de54502801b36e124f0175d26d15e0a0ea1",
          "aff0c9884c9a420f20da5929674db60f9fa30cb66f1b957ab8e395b5963be5db",
          "09b68dd614a5eaaf4864618e2febea0dd428f958ac18b8ea67a74b94196f99ea",
          "bb694e73cd747043f8de7796fb40c430a40aaa12c3ef10ad908d3ca90443bb30",
          "81d0304e322ea3564189d4f96118be5c5bfb8f0a962686c865dd53997687b2dc",
          "395e167c22fe6b19da4cb85957d8ef859cba755d0d3b7b8570d3d7cfe56d5703",
          "f04be5a74e21417c3710a9cc0303f9e5ce8e17c63cf5dc296ea5492c0b46d078",
          "8457dd9723d01db761496a76d72963f3d1201aa469119b7d365ec4c1c2720c76",
          "b3eff1648751da1f730d73500ea1a4761a9bf8df66eb576bb002edea65305136",
          "eecee0c1b2b8c125854ace7890e98355db256e707b07e7a957809d04593bf8ef",
          "ee65e920cf496a77467286c4afda317a9db5d7b63324203c4c8e063e210525de",
          "38408e0cde4600686d8edff7115c5483da6cf3a730af0968a483ed784d96c3d1",
          "c6e35ff7036b5b119b2145140253f713de316f1816469f642cb0ee58f89760b3",
          "5457aa46e44e858324b132ac07555b4280587982b065b9c38639622cb5b4de2e",
          "babfc4091b99d050bb281fcb0ecc23a8b511940dd50bb3892b31af70be7da841",
          "6bd9871b415ed5e615246a84405e6fab43fb31d022801d91a0f27c83cbca09f9",
          "bf1f94a7432dcbc8c8cd7a27f633a50b04cd8dd38828a4b26ae0696f16a0cf17",
          "22051df87c294be10a72db1619cbe647584f3d6f73a4cea3175c1d1b690441a6",
          "3ba3a48dcafe7594782844373cac85486ce45076761274488727b20400445b63",
          "81ec2fcf2a0473b56278051821d111a67a637869a5ce9e383327e278ec64e027",
          "85a2fcc7da7b33ab0bb6ccfec22cf677f5489fd1ced123e82c8ec8182cb22838",
          "9eb79e077478896d8aab06e19c0ec1cfd782c75806f8a9f40cc0e5a1d0975dbe",
          "f828f345d0c6718f4359526a6bc51338d3b8d0a450a19130c4d3780332221559",
          "b9c383bea1eea63b6f82afc7db2786e161b06ae1d3f1fafd1886666047bc8655",
          "425308bcc2f14d3468003bd178ed8e157c805a2c6610d629e34cae403bf82653",
          "b449c0ffbeabf5772efdf5f698546e23851e4180e687b2a6d4cc6c6233b00bdc",
          "dcf1cdac9e76e7a3c6dc1bf5dfc260a180c618c36c875b4242726eff083c1d89",
          "31a6d5e257b407680bf19b4a4ed22d2308a5da68ecdcaf27fc3d32b631c30e8a",
          "c12d65dc10331d9556bb8abf1073822184016e85fc35340875db8599e3eff019",
          "556e57ff61d2e95b7388ce52a69dd3b41c82e0fb4d840f74330727888d123bb5",
          "28db0ff88b923fd4a63a1910407f94ea86f8ef4d1e13b2075cbaafeee61d5591",
          "e4e86a4cd5cfc76d50302c72ea9379f2981c33edc87842b702ccf22885570d63",
          "9336413ab33ca3e0c325e2f686baaf2e2a3dd3f2ebc283e6cb70e4ff82188c3c",
          "6a6c229f6a426eb9be52940b7cc83a976119db917458e614352b9e3ead830023",
          "39f096ae02af807a3a11c61bb797647070c1f00d5a963e2e447832c547a970b9",
          "7c7d8724d3fe101e88d6486f101c7e6a5050cf8dc13f385dee5d8aa672566b96",
          "a62eecd30c2bb6c5498ab55a70f9b46dc6e61421fbfb31a7c05e404109f11d7f",
          "5b023f6f837cf0d0d1670f7723e4bc240333e86de835dc04dc2ad449b41e900f",
          "0af410a0613e676fa141d0a3c91b0a021b3f55759faa3975c3521b195aee33d4",
          "44d7143125bc61ad65256ff8c0c01d0ec076e1d73d0f33d38779cae6f17db26c",
          "4bcaa297a9e29b2088f7b6c0300dfa37809299e75a2bf78e679bb60050c3947c",
          "5111bee96f82b302a75abf9e3cb765865e37c0f5bbdf61e801d69a15da21adee",
          "2bf81e80bddf2cec399e097384e304957c85fce4cd2c7d10710954df0c7492a8",
          "99a99650577efe9aa0f4c64769167f12414985009da52a7d82b84649222efdaf",
          "60319178ef47832628f3665fdf2b5dad03d3681a98417502405504a69ac706d3",
          "dbce1ddbdb0f2d635e00fec8d051d5984465651fda8d7426ef111fe3d8d369b8",
          "8f314eb4650c5ec72bd042fdaa6dce7921d0e2c84a33b426f78a827a6e91631a",
          "5a0a8e822e00f3e234e4e03f551c584183645c604c989a1913aef9bf39e70d24",
          "1646046f389f43e4e8744aea05f55143bedd8c0e0281be8de3ba09f42e21bf5c",
          "4dd925e9ccf51a1430826c2e9e027185eff3f3344b7201ae62e920422a20b7c3",
          "e6f99ff6111f96c1eb881fdc8966b36025bef18f522a4a160d7e569f413b8a8e",
          "604a4000ed71c9cd9b0400eb9dd5f92047575e3a6256712efd4700a2963587a9",
          "c530254186b133f61643d3ae500be0e14fde580fb201a8ac80f6fa32acf58487",
          "36595c33e802530bd44b98aa5129e68cf21060a93ae353cc2a0f3507b6d7152f",
          "3bfe51effff397e4357084aa4fda666a31c1f18bb9d6e665049d5b7ce6181e49",
          "795327e67659b7a3384f8fae877069dd0436b2c32ac4dcc71da7b3601f06fafb",
          "b07fb9ab1efd2f198b41670a392d10e707c3ca1eb0c7539cd76e6d105fa9c55e",
          "028bb0c7a2728af5650f51339d4434e740cb31f7d13c25d3ab56a748c839bdab",
          "811a367357b818ea418b20d07360e7af338593d485a639906ed2209921f9cba6",
          "304664d0bbaba52ea6a54447f7f9743c1b3beb3e03b548bb59eb4476b9d5ae61",
          "8d79e420f52113d38cea42a33101a55c576765aa3d930cc16ab2e8bf2cf4d51d",
          "9b633fe7b17f923e4bf1715581b7a1bb58f1b77462bd2170a5159df2ff9360c5",
          "d97178c552f8ed72287725fdb1575a05ac2a86a7b69d78e4023fff3b12571712",
          "89371612278107e191d795d16a937acecffdf63e3f1960712aef24a18cb791e4",
          "423b27646f88945dabd00f479aad41d13d72400c68c1e18fa857eacf9e7f3e83",
          "3df27dab20413e98a3eb03775049198b92014f9ecdbb091c75496c09ec92085c",
          "e9a19a5893ff552914a99246d920c56908d8b0745db0a56fc9a8ac4632df6de0",
          "1f08e822ce72f11a37edfeb3c1205d07b56f7b43e185b18a732090c86526ee3f",
          "da935f328018dba0a30bc0ae0048e41ec940947cb28aaaa9998972a198e4103a",
          "1c6b495f9eb4914546eb337a8299ab64140dccea7b6e88154a9f69eecf5079b4",
          "8824468e29da802d369ad7c21494f589d2e4a841a46cf2070ff7b09a9890486d",
          "f00c1e6d435a8366ec52baf442739998aa98754996846b11eec5c76ed5d3fe41",
          "d2af80cf1309a42634d14ec2f4747708976e0d00a3d55b25e001c82ab1dcd2c8",
          "291b5a4e2d32e9da70275cc003185e0cfab8612c11778dc1dc0ca87e25443093",
          "4b2b94df0a81b486f91ed2185653a9459220ce2019a6fefbf37b74c69216c525",
          "58bb9c805561dc61ba4fc2b9c1eae197fba0fcc82398d5e6fa2b142bc19d43ce",
          "a43a9849ac09997160305d7d99c061929a34eef74a59bbafb3346af89bc70d7f",
          "ea01d4902c9688a7bd8709b50b4b7617f06f1f7b1bf90fa043b31213d63f6a47",
          "4bbd5e37c6ec40cc4ce2440e4fdf1e1183336f0c50f90b2ee3513c35e1f04ead",
          "6a96b795feb6c3d61d04e9f5555a19c270f14581823b95f9a1963b876ae3a19a",
          "e5968b2944d83651b808ced9301ae639d701655bf1a9d209e8d8c5a51d8f770d",
          "3b5792ed3e1aefd37f28731d417205171badf541847c6e6b362138a65e9b774d",
          "4356f0a25b93528e3c420583f2fa5f62ca6ddd4aeb58d1c2ee6445b7ade3bc49",
          "42af00bb00f27da690021dbf562e7a053db93d36dd4ea8e4782723795d68f44c",
          "2ce0a4333e37eb7e6f5f85b614ac10098a2d7f1489df78088c43cc8c80f19948",
          "706858fc2a7476c1f5e7c9cee263bd155097cad93954c66033c222145babb9ee",
          "b0156e7eac412db9cd56aee099a43c491275bb400083b4659483609f868b8762",
          "16e28f0068ddd001e36d7e2479cc32ad0dfa2ff2bb5c5269b903305cb1254b23",
          "66185cf9a64db5a3c5f9201bc385b54103a54b64ba590df79c97af428ef1ea8d",
          "6b57a731360f06f29b06a003acdb8ac4ef722cd1c7e894740a84852caf1e0690",
          "b7ee1faf6e203f802d3b790268f53a32c16fd551de9e1df8edbea3f27deed292",
          "5cf19e77076a35e71e446a2ee354567ddc2f66d0782a07398a7de0f9321a0ed6",
          "fa06cea0f8a60ceb26d30564e3faf357d9f9e38f145c5de2709aaf282fd969c5",
          "7548f9b8f4d03d844ad2e6405c4a5b967de5d24cbb0d14328f89517d9536b891",
          "f73e27c9a554f7a5df1a75242bced2b574f04b52e6844da42fbfda5f85b86019",
          "db5061841e6b04be8bab2893bc48409e6302b6411edaa5ccca3e101946ffac74",
          "7516e788a37ce7e7bd611baa200c51140074cdf9d3266cef97bfdc73bb648992",
          "aef9b0b00f67021d6cd3ba672af86ace48ddc2cb6f1dd1488cd99137071fc969",
          "1a6ea01c86011fb186453c12592ae90f8f9c3c220bb7446fbe84afa4ea459d08",
          "3792973f4f5447fbed383e9de3c814e34c680b4b65775bdafc398fa7c6b90cd4",
          "1b2e3f288e935d457637a374ef221d592aac50fb3f90d23d3a4f612689ed0050",
          "e7838b9c24daf36c3f0d4ec7676a7d241e12adcbb9bb15392929e8d8d40bdc6b",
          "1645b511fe80c5ec544e30abb8fc47261dcedbeba0a8fd76e34d053660107c9f",
          "fc7d802fb22cf1fc155b5b1e857e8e14a53937af4349d04303191a27f9a6b60f",
          "cfc4fbdb211f918b0c354edffa1b495bece0424a144e6c33e8282d4e8623265c",
          "755281d4021a8c41402fbcbd6da75a6116313d32bd953020145f07e6cce7637e",
          "539860ee3e17972ddd0e5588e692512f5b6b839c45f4357228546d0726e7b7e3",
          "9dc1c5cbc9bd7895af30eab33d6e2eed938b21fdcddb40d948df9ea8164216e2",
          "b4ed7c9ff1bf862d96c4485ee3232b1e828e8e5191aefce5c2a107c82523f5a2",
          "7fc3958c08ac6cc8088ee1983caa2aa8f0697121a757a3f822c5e9d14a32c06a",
          "996e4f258b02a4fc7caa0e7c05fb64ef880b69302ee14ce8479c31e1b1ae04e3",
          "5f7f19a4f5ae68917597ff0b886f031bf1e54ff640c25c28f5bef87ab3dc88a7",
          "022d30ddf3c68f2ad5d810d9a73eac01da4636bb0482e0fda2842d8bb6181cda",
          "0f8a39f69be53bab8eb11ba1c4858d0f691d3b54dc5bdd108aa8bf6e3186cfc7",
          "8fb6c263cc56f00342afd092c3df00a8505bd335a1b0f5d1b202e5454b2a7322",
          "77e364fbfe1f15d521e039fbdfa5eac50db6442868d7753ba3b10a5272c5c1eb",
          "4b5935dafe4337ebb35a94221bbf0ecdc9376a2065a2e1de82aafc1dd8f37001",
          "b04d7a9d3eb84208b6d5c93970c5346f64c545488b34a1bdf650a15df60d56f4",
          "acf22fbd18917b20026f80ac01a22683b080e2ac24ee981234b8c6a3d2292252",
          "af1d4550c3d74705192bef5ea8af49b53d92852ded9e8633b79d8fcee2b3068d",
          "aa32889a651fda2dba5cd7eb06182473604371568b7d7465714b44bc9afb0981",
          "858d7cfa2c7652c3fe72b2b1adde298b27f1b5d74e8ebf461aa6dce121abc982",
          "87c43cb59a03c6c0f9bf4e76bd5d725caa852b9b5f44001ef6a37fcbd54b78fa",
          "922d47e2c4e38bfb60a68321051d63773a8d4561b7f0d55b683104f378807db6",
          "0ca69fd8e800fbdcf5367cfbea7f257c560f8b12308c81ddd972cf053bcfb042",
          "f741daae0e0050f98237fd9803b9b96efeb329c6a65c89b80c05ee2f36679851",
          "042355314327db3193457651017a0179d6c6aac1796971c1dd662a29fe2d105a",
          "216fb74027768396d2a3b2cbaec3354dea852feb78a8e01bc9d4d6b178d462ef",
          "768a42624f4d302b5f530f50312b551f7a3f9acbc4e39e1388b51c3057d21104",
          "462d0e8e59e81658b312ae646cc0f657d554cfc654203d3046cd91e3dd67eff1",
          "5cc36e5ce7cf6d7c8f2509ad29b4f8bdfd6747f119c56f3b7b6beb378351deba",
          "37c15cdb70f364207a3e3a3f90ac9c8158f58e6e00a268afb3a9a23977f2b960",
          "35e71ad4d77405d7f9d4d6af7b7f08ec06e36310affe6a0131dc08ddd6f6c618",
          "9a0ba1c90117216a486228f8c3c6cd5cdee135b367de49d990e33478633995eb",
          "f62c42cd85063fd3f7811c4431caef5a98b6f48f03c18bda51329bde5e95c410",
          "dbc918a61cbb0ce99879647581aa5faf709760c93e8a68abb03262627b80e74c",
          "799cb7853042d93db73a3dbc81bf27dda9a91a973cbb89ed68c73008175b6613",
          "f34f268ce988f3323ff0f2b085789ce9bf86febb9632e1de11ba1d1f87f2c5e7",
          "5cfa267d1150b42ae6a9e9958c3297f223268d6f72bce0ca7345acea0114c937",
          "265316ddca4495b8bd09783afc75185da6d17bd130f8be9ca7793c5f9169ef35",
          "8994b4adee4b74b118462d141ad2bec6e523be3d5e869e533af09807dd287055",
          "813b47a6aa34e7bba93c389e3b85e72c62cd2ecc4fe6c0ed87e89057d5028a0c",
          "eef3040111b16f605da77b608c7c75b2032a4681db78040af4fadd027f8c359c",
          "e15239ddbd9e1208cff17f62652406337e68c26f6e1f1b2df0079706bef44ad8",
          "e9f0c20fc4b3b27b29425acc1eba38d89993c5e30d7554f467532a1c4b7cb573",
          "d00cadf0298f3d1ecdae94a9e1e69f9ae9f75c1812874a36ed5f9781ef9e591f",
          "eaf3b72fa9808503e208440090d8d05cff149a7a6d207745b27c609156958b9d",
          "f2406ade88510c2c1a0975591c70d2ddde8151fc38b47fbcea5c2640d56466c8",
          "255060992a9b99652ea268227ab21898135feb8382c5fc06abd4a939aa83a54a",
          "948a7a9c22cff6fb0a5d020c33ccb31f6e22fb4456ed285be83d7e62f6dd4731",
          "a84f5ea0cea946bc2acec6a6a271f07f405e12b3dad66a11449345bdadace910",
          "9b92b606e6e17ff7034cb702058141e28dcc40d543747dd5026bfd86525d644e",
          "cf4ec4b3a56f8c03d452311ae19727239d860e2c4924cf923ff225fb442b3414",
          "e0a04f9292700fa7c0579315b0d573288a49feded7794183a7360fad95c31782",
          "c3982cddeb8eae645bcbde61b7f5342914b94e2b9182e287e6858dd87f3528f7",
          "c1b031450e57e81b01268c9b91419fae6283cf08ef26e90b7459b26295b13b90",
          "b051c8cb89e1c7da2920d5b31743a08014172d63db89928cf148611311ec0d28",
          "795c7dfeb1433ce26cf9e39d1b89aef0c940bccb23f840ac4de97e0238f7fb5c",
          "e4cc23c7483b0f768c2856050df038f8684f64337f2811ecae5a7dd732caa4a6",
          "c77a940f2f03ce6ef68fdc5da26882053886480d141c0804b0eab034f309e135",
          "8725b72ae987b435cb383d9d2884eecec7d1ad239385f79d209182b440532898",
          "81a5655d496d81738d72fabd398e4099fa07ff085f1c35f664ccbefedbf91457",
          "fe778679f85c4fd2cb494d5a5af33b5d227a93adca435d08eb4a3db4ecb32322",
          "7cf863775f733a71534a659506109b61c220bca8f31ddaa977d52088d80e37ae",
          "3b8c3d44de42cb887b1861440884e997d2b8d0258e45e1aa7670aea5d1c88962",
          "2253e5c800a30b2314bf076984e432383894d410a41542c5635b63c8bd4284c1",
          "e7b309f0757bc9ea0cefdcc5d520bded9e3eb4283ea8e894bf1f35c92a65d149",
          "71ac0aaf2cc44b06349d2ae2cdfcc113dd61bf1dd5fd33fb4464d71336860a7a",
          "1ff346bbc0280bcdb612517415483551d67e5c6ae1bc81a12d8bbeb1ba4630ac",
          "2d5e545358d854f7226cd583c8f155224041d9897936f42454bc53222ddc252d",
          "0b20c47511e172a517e4d2e5bdadc1c20d7353c25e3f8338cfe0d83e9cf549d9",
          "30e1f8be2c578d7fd503cbd2e0f679aecd98afaf6bb12ec0776f2bbaa632362b",
          "0cfcd49b14b130d046bb92fa0049b633b3dd0a83452d71325c73d47aa59240d4",
          "759fa8954a4ccb1755a64cf8c9ed5b1e470a32a1490f50ad167575b1a1a7609d",
          "1863296b9974b90117951647ee45e6004034667c4be43d34c8240985f812e64f",
          "5363ac87b686821ae84c7504c05e1d673b449e95df61168845874ec50e8f27f0",
          "5b7b5359c2231cb32ab1b91c874533b3330ced3165b894be1708bed2811faf2f",
          "6595fd746ee5c317ac539f37aa1290de116b3662634921d14d7d7879dbb6c49a",
          "1214c06ae900cc5520356b9120b96039bc1313e3ba7dde7cee8be34f5811a283",
          "394512b6ccc588aeccbe7e2696ac8aabba5bcb4045cab2bc1c3125da94b967f6",
          "9795203f9cde9d6ffa91110d9b143a2fd8d8492960c3267921977c6b3754cd1e",
          "453acbc48b770e2d19c0b57473556d7e124329e054be3df7bfab3c15100b5812",
          "1f8f333f5dd99f8f359b6762e04bea0e7ba4ccbc95188f6d99e1165ea8fe5dbb",
          "52cc647ec67bc33dc83566e7f56f0c0f0f0b35883e6716a5595abb3f38b1861c",
          "6dbb7c332e9a9e5c4243457cb955df56900c6799bcf4fdb7aaa92bd17021ef96",
          "f98bb234f3d7081b52ae79c487d0c476742a051542f1bc2ef36661c48d7e1584",
          "e4cc83d886c356715638d4592e6b2bf955cb2d5b54ace96a30eb632903e71104",
          "46cf35e9ac12061a9236be2aefe785398a25156b46c05248133033aa0cdf127f",
          "2fb58735e7a01e5b2240235194bbe0fea95d0ffda1acbd88922abe2f4748c12a",
          "3e4dc2225045fee58a983b187bb7fe0bbfba0420d64cf862877063a710350c7e",
          "9640fba87f963de1681a236f3ae9134393775ead0ad52320519e256296f11c54",
          "dfc0ed6d19bc4bacadd3bc9a2e3328b3a826fcf4db2fbbcd7fdc73f852089b9b",
          "fce5de795c4835355ad549c78a15d60f5554ae47069e238a0db32db31606bf90",
          "94e0a14823e73c5f2d87cc46de70b161efef82eee9d5e9bc4eea4132403cbd4a",
          "dbb44673d8c0c9fe2d0450a0dbc605a5daa0d443df92520f4b3d9a7432595a41",
          "ae9743e49363a63d48ac4e18ee0affba0649ddc6d53d36ffadb5afe1599fe91e",
          "a55622e4e5521454fdb6ebbf01bddf8327ea1c2985285688d2485467d718d217",
          "a965768719f162831746f0088f563fee6bc95bf166a4e6313950078c539d05b2",
          "cb969d30666512370e76ba3b90b330ad394bd12c5c91c8acd9d4b254732ad3f6",
          "516f05af6f0f8b7ce0a5bbccefc007e1dbc67a7697aee0f9fc6fabe79093a74c",
          "2b1cae3838663707b507a266189933d47c102807cad8e23193dce9209d61bf69",
          "8244a15141d79c2c470b8a5f1d2fabad1fa4a3464fc7deb91e3d7dde92137dc6",
          "2c5b0071dd0619e394a02b1f3454e891bf74bf90fdbaac410909f57bc776803d",
          "bfc4373d9dbc74b45f180059df240dc9b36ffcf52ad0ed6c8c69cbdcd174977b",
          "0800c79e5ff6516720d3d97d4b961a04f79bfc8de8c1f748e1735bf1fb289af1",
          "af0fbe5e72a19e86eb56062213f21d258067f08406efde574d5d5033848892ae",
          "a66e8ec26921e387cf90bdc45610b6107ade3c7629c4dcaf7f1cfa3355c356ce",
          "97925492af0dda761be037c66a19d6ca2e4b2ad65aa0d4c018e4faecf4910381",
          "9a86c72d26226d8425d26bc8b0884f464160c3147cf951c72fcb4143b4b46d59",
          "afe1f605b816375d2ffe23cc07d53b30336eff97f90c583535d729ceca3452f4",
          "c5e9f95d2a1aaa9c62b656c9f4c8a67db97452f11e8d07359b9fe9faa548ec44",
          "6ca439081dca6de18d2f9176f0003b132fd6f933c61e8ebf41a854dbd06ad5ef",
          "82a68a62cf3839f5daf409202c83a53f73cd49b84cfcb119b52ded64a2e12032",
          "84569c380e31dce79d9ef29faa263a31c1a2d7cfcbc158b194d9afe254067d80",
          "b6dec196a956cb358c5507a871b97060ea1e66ce388c8531567c6e54392fa49d",
          "cfbb9f225406df06dd46fce94781bc6f29c4b5555a5d3a68df37eb81fa6881f6",
          "c5dedefec903be8af1dd7a713a689c5c9996f977acc0a35f1b129edf26d3d59b",
          "1844c731004c7b8fb963cabdc22438d9c6c2429645b71de9e6f1692a84018364",
          "700eaa70f87b90b84cdd612c5d21a9c59ebf587e2072685a844d2120ad8a26ee",
          "6bfeda42c8b92c0edeed4edc859e8d61a099a4f6754bdd6887d409de278fd1c8",
          "91d979b5a005c42312cf292602fb601a1a3d6353f5acb740282aeb1205a9ea09",
          "54ae469db67bf9e3d2814b1372fb9fb3dfb308c5030b423499b42833b5a8e2c2",
          "ed2e68e5bb9e1ed2b77ad3731005b086b73bf08911531c0f9fb4cf070adee303",
          "e6cb3d72abe3b4a72010aca1182a2dc0afd50a5013a8fe72b07fc24997430330",
          "8310a0dd56e144a9fc6f3be000e5cdf3ebb04befa8e10f712c95cce87d8eaa37",
          "0acb4fcd3653bae8abaad77b0e82efe2311f97e3d679fd683554be3403c62e81",
          "ea5bef0e92a26779b28f21b677af36400542fb1297c96e293f007cf72920b4cb",
          "75d74d4f857a13e8273eacdef19f295df933953478d05f7514001c23d840a2c9",
          "9967aa302af42abb41e318710ec53aafbc41d003952c069c290fa8ab7ebe5a90",
          "33708865e9811eed59a883db85cf745f98dae2844daf7ad44f9ccbc19c38902e",
          "50ce2ceaad11f3b5646b85fe79246343b1235949f8be70679555ab373907c6dd",
          "60a2dced471091a52a2d75be91029bdcf127116fa26c1727b82446001b0beb9f",
          "d088f2267e1a90ffd7b6c00d17fc87d6b434ccc9f0745521de8763cae98dc6b5",
          "5f2ebc78cd00b9d460524a26e575210a4797c5493cce044bac1fe161a35fd340",
          "f8d1ddefbc9bcfc74d5263643b1605dcd1f38bdaefb1b6c8a77ea4b9fe46c145",
          "10e32ed5d6950a9837bca4ebf0d246a3887c623c2d260b99665aa944b7220a04",
          "70eaba4899265cf30e124174252b1d589ec0c13120339ea22a72806c983a91c6",
          "c4325ec739b41a002fea4d3b1829930d4828fe44453dae91e4d4fb8dd63340de",
          "01885dd9cce9b908028ac5777dc4b7efa814452b90c0b3deb013fb98a6f812cf",
          "401d7265fa003a78b49b0ba2ea02fb97ed1140ed65f6bea13b1f4e821dc2c25d",
          "24fe1a36d7ea47b69fac7d19f5fd1a5a6659a79e026013ff747c7363d88cea78",
          "0adae6f966e14675ef4004e43c1bb4cfd3ef99834b3704f4c1a6ab43426ec0fc",
          "fd652e46fd5f10f545b506474315bfd517d69e2683a1fdd8d6804578c0b2e386",
          "1fb9efffd9b20b1edee1d1e703b0c812a6448f98d486aa745fbedb691510445e",
          "f1adb334157d1e7b9ab828899fba765b8a1c9a4ce5a993699ebc506a330422c4",
          "68e5854f4c5c691823179fed93a5a24370cc7cbd8ac1b3bf37a909729d2f48e1",
          "a78455a9f1773aa52b4dd4c6acdc1a0f570e11ce2f288b99549fc6ffb1009e7a",
          "ba4ab29838ddce735916c68f1b619f88124e847271bd77c02c46b8c7b761661b",
          "31313d0e5c41aa8cb4efd1cba9dce2a8d799c43321b77b2ebdd61c4a209fac09",
          "27884c72eba01c83c978b72f0a7b554400798151a723154d3688d407f46b258c",
          "31a89f297ddc87cff3e1f262f9c902cfb0ab0a74570cd0ed9632326c7070503b",
          "c83dd90e69e4efa385784bf20a5adece6fe3b1cca85312ab3eeb052df20a966a",
          "7777545c75cfbfec67030a294e50cd763b11bffbfe47c0fbcae1e1d3f6987639",
          "ea36ad2e6be92cf633d47550bd9ed5692712ec76e835a127998cc1bf7004190d",
          "d518b80af5f092e1d63e6e4f03dd429b8922389f31dae6b1c409ca0d2e1320f5",
          "5e38d8c703aa2507dbdfb900426a4a4801675088e472c600b93328bcfd6b42a5",
          "d521fc5ce43d466ab20a0e8e30090943ad037816040441e46388fde853cb13d8",
          "7d29aff5e4e53e9469ce05a53f56eb0c754041b7df5551770c624baf20d0faa6",
          "a3e162488f098e4bd0fed5b437cf5a7050e976ba3edeef0c726352ffc9a207ee",
          "5ecc3dc882bea324095d86dd0b0c2a6e7587e0f559fa4640586421b5c73111d3",
          "adbe5017b3c40557d6b79b7f14e0372a67351dd7493e304fa39fac02c5220e42",
          "058d4eeca3801a57f96ac74f2568a39ca3e4eb28f23858eea31276d1d82eff1f",
          "29c1d2a1378f5b4ef8edb89db05b91e25191d4743623adc719ae22dda1004dc0",
          "c6a97c66b4fc665d0dd10581ee9faed43ab6d31d47eba577564e944ad3cceb79",
          "1621f89e31f8ceeb8c3ccf52a22ce94bc6ad3effabf9fb12bc42255d1e239bdf",
          "a3b612bcf06d0fc027b2c74d8743ecb74029ef3c8c3a0425757d92f1be39cd53",
          "215567b55486ed78972e38df6a82e4422a2feff295497bb8b722c0a0dd9ea2cf",
          "cbbbbaa0aa778680713738402af6788fe01e7abe53d3d165fcbf7232068ede5f",
          "7097860600c1e36c85d444eb849c473c1ee9e94065d61a046c2b54f8ad3c7cf6",
          "1c7b003d450b605301b925a099818b035e401a2b5ec5cbe4decce8dce3779f6a",
          "c75a7c0f8436424685ac07ce32eb3a00f84cf0e01cca5a678f397f86925a4e09",
          "15c48b8d17ea074e8dfd7686a591166391c2883c75425fab58b286681446d42a",
          "983dc4bcbeda43d49628d55590e0696e14792322ae56b8d94b7b8e0421bcf2c3",
          "47ef9693e492ebad46fb719c182895c59e5bebb2c2750a01a3e710a271deeb74",
          "024d1a9c7bdb0acb0ce28762783a043cded9d480aa855f81a1c8be9572870ec7",
          "d653bbaeceab757b7340958f520ba80ef451b2584193c0fdf5a7661fb0a2870f",
          "77bc51304dcc5605f22fbeb5eb903a2ecbcf634837b28ef278a09c92144b6d6d",
          "51e78344b182b68eee429affacf3a8615f52300af2e99398b6f279ef1ec72d07",
          "a4a574f2232657bac160f16d31dab1cd9beeb4fce4570ab57183dd8b01eef253",
          "8c7afcbdd6764200c44a422ddfe7f153c00d77ec11b0a468a7399845955d8980",
          "0ee7efbb77d238ca924b9b5227e587aafd73faa4cedd1d529efb9db829a7bbbb",
          "1bea3fd5e98b639ddf5dc943b7591588f8021f5637e4279cdde0b47c71d0a208",
          "16f581a8040a72b33592bc3c55dda1eb05320d3995a2ff86180e8a420d1c5a56",
          "62941836dab82872e710a9b90302d5cccc0b3f71321d4c0d1d3b19ec0814e18a",
          "8327faeaf966faac2336462c0567b512d1ff62835a3c7708c4ed605398978593",
          "e7172151155eeaaf3756ba193d474f0a4f9e738363cab6b923fdb35ba81e57ef",
          "86a420f03a647e428f924448b471b93cf68fec07e0ebf4e3602bcbbc38a43acc",
          "ccfe84fc6c0aa6409eddab8d5f24d50ca728e46d3f03a397c83ec8d1188b994f",
          "21833d8dd227a1cf50605b4b9e11e9a68a77edbdb44ec363f935f66c77c6762f",
          "b15910a54ef631f908e5a53a4394e6d389a162e6b2b2cf8172eb0040a9f0a260",
          "9d0de6469edea25d88a31ac649e337b85d9da0cc3dfd8accb85b971b70718397",
          "86d90dd786dbf8d8b1b85e506ffd7995c949281bdf8d65926ed3e5a8293a482a",
          "c8590ee4e80170d74066751387ee372bd2060e1b8f36fcaeb89f0c6ac2945e99",
          "c8b686a0ee2c35adbddf8a7b2938c5567cd172ff4e092d47f51a154006b74f0e",
          "1f9c60f0c28b2b749c836f9e2e14a72954f9cbc2bf4212dbcf5ce7b1539a5611",
          "788115fd18a7bca8d5e16db31ddb4b413c5a5d46f634cab90e33dff1939832de",
          "982a0fdf8da795fa2c204b28761241d3fe0f132b2f3aea5c0cb1443e6b1fc68f",
          "db1f19ae3e937479e39a1da2e9cc57282eb8ebf20b755c5eb4eb8c4e4d7a2f61",
          "97c3e02f786ff04af18fe3ba1bf0b0d312904eb3e84c55613948723a72590dc7",
          "024d3f03fe6314fc53e5cb7756ca90b00d47b22eb8beb4606af3c3783f4c3cff",
          "a8d791e4fc76ec7bf44e5d02212f94fa186926df21230689f342f0c26440e701",
          "8bde7b6027320ae6f0918308d3f2a101cebc0ecf33cd2149eab0d7d42990d5d2",
          "bf5f7f6b3a932c7b5208cdd1f5ab6eea98cd79c586816004d50cacf835b74664",
          "28f6ca1b791c3c8eba17899b48be248456010d7c25a34c6a93fc369662f7b1e2",
          "e74ac42c29c232697f441a41d4ed0ae4f83f94eb2437f012474e01ea87e8dbae",
          "dd15690da088a67c45ea65dd9c00f38527c461fda9756ba05db68ccd941ee0ae",
          "318b1da8251ad477a1e0ab0f2c54eab00124a2162bcac91ff4e1284cdc5976b5",
          "05f0c3232ef03b90d341e4e150bfa74d176018ebb9c0ba3cf4dbee342f50d4c7",
          "1eb27c9b859fcfaf73a4638e1ba258133dc7a36116ccb407bd324a88a3f62916",
          "0439af558d7a07f3daef373d1b12f37ae9c62e15a8d6dd66af09f9dd58cd8687",
          "618ef5e7387df879487a4a3fa8053115f75bd85af4f421955dfa9cbfd2f595f3",
          "7a859ff97a8221c0075b1cf74a7b199eaa0597c3760fc73cf978dc3537414822",
          "bf059fa0be296887d5f7e62223f035f6956c50f4660d5b6d23cd8e8a1c38cca9",
          "cf2f3c7c08e347bbe3aab3075b760a5cd81380a0971a73d10d02318a943d46d3",
          "1356983cafb1955fb80f0cd06618075013c417e8333f4aa3a2aab64b0d3c5488",
          "82bb0136f0717ecd0075b744d36eb3c5f63114c3be79d623af24fdbf91e57d86",
          "28b01b077f0db49d7a208ba5f203a9f075690549e7399b677c408d812c85b34a",
          "314ac96119ba0f6b1f907e410a95f741f350f379fb1d8e9161709a4b1c66bbb4",
          "80ad1db47cbfc095f5e7428721bf4262ac0efa14ce7434f79891c05ad2136eb4",
          "fbea446d0e2f3017d39f87ce2adc9ed855d39ed6771aabad08d89ddd11faaecd",
          "c07834c50edf4c6ce829116ac401bb413057b4de9ff0396b4584eb5c54acf143",
          "f9e96faa291e0a7c9ac9118179fa8826eeb77d32695393b82c3811d88dd6deca",
          "8a8513a30ca8a2d04787d9336afc8b5bcddf0c37e3597a6a5be99bb33906cafa",
          "1f35799c872811489c395223dd320b87d635cba70867e7855bf99cfee132c79e",
          "0dd52b89d299aea620c8f3ae3e63a9ab2a8de0f6d8f71f9219145a1f7f843826",
          "665911a947fb31be481636636cd2933c96d4132537031575d79bd781ca9b0bff",
          "efc5de2c411942f525291d586e140dc4a144c68e5483c8f37390a5536b88cdf7",
          "408c41e0165b57a0ba6e010ba959540fac7663054a75e595b628f96c35b7cfc4",
          "5d204fe0d8e3b09e7a98ae2c864cf1aafbc40f2c922a84828463ef05bc702529",
          "7538c69d964bed5c6469891a70a43136156a4fbd0cfa40ad378b01792d7f0249",
          "4c6ee8962ea059a4fd17da28eaf99ab3631c8777fb9ef7e2064a363ee8d90f54",
          "9bf4bd4ae3d645f13033968c20f6bad8ac6ff560c2f43a693ea2ebe32ca8f762",
          "b9998a8263c55be6e7c4a522178a6ecb6675d2464fcb716a7e2e44ed9524f675",
          "aeac1ffa8d7dd16d46503122f752ddfff4cfb7117f11930838541ff96c783237",
          "cbcfecee9bb4f21defebad704994aaae769c6b7e44b812f2b06f5b0d70cca247",
          "99bfdce89be9be80fac1f761c94513de9870b32e5c4e0608f307690fa0aeef35",
          "92a84c4c998868fe41d8ecdcc36195d2898081b34adedb82697441b5662c39a0",
          "e6d901bb2380b1b1752a58a26e59e1bc3f865d17f2130e0efbbdeb510e2bf75a",
          "d7a773af14056f01d7cefa542bfaca78f9e27a775fb9692d4b77688dfbf526de",
          "6d6950ead7effe46bcc0a35e395fc95377986327c55e58da1be33c64b8d4ae70",
          "6e3cb63be79e6564f8408c62def9b2a2a508fc596570bb76236769822334b38e",
          "cee9098a7a7d37793decfa31e5938e10c120863d9cb0a22522ca5f8e31ed5630",
          "18b4d83ac381aaaf869580870d4f8cf9a2ef9102c52559420d946c628daf65b9",
          "b762d7a7de9f05a42dc8c5e9b4ccb77052365140143c47aa04ff4896e7d277aa",
          "109795b2a8b626611e87f11bb64794cdf42e44fcc5f0b6932508d794bf101304",
          "69e694cc03919a57c914bfba186af24e6dcccb03950a9774997b4142130a485e",
          "3285c08b8001b9951fe2410fb58d3cdde33eccd9dab8da05aa19f43e77208a22",
          "4fc4d9b4cb6cefbba73395401a548ddd29a3811e18d25ec6d009acf1c02c167e",
          "dd6bf54e0d9156826d7a1f85623508b6cfc0bad59d61bf3181afde49a9308a11",
          "4810551b402efaf1f72e355c533abc0c579ce8c8cd05d0b331903f47c577d675",
          "c087f52367ad418501304a406708b92b16632b382c686dd168232a3c7e433c4c",
          "1931e099d5c4628875d6598ed294af917442a4fb55ebde1b7bc8cf7fdcc1138d",
          "5e92d612b3cd38a4f7741d31ce9f9047cad45f08f7e8472944154d0f78eb1af8",
          "482e2ecdb124e2033f42b5e8de81eb469533d65bab21c702d9b429b1f0fec947",
          "dcfca40fc512d827a49f8541585c361169b1a4cc7fab55a6470a7c0d27b7b1b3",
          "6c6aee83859f1aea43dc9b6b100d865b33fe12bb4457024b7fcb70a2bbbf53a8",
          "868be249981815917743fb03e1cc3030d1c74dabd2d0692a35659c581c1a0317",
          "b3dd925c0af7254acb17e4db75348cac38a8048ff4dbd104093fa19bbd370b80",
          "daa89a62a2349dcaba19394ebcc44836df642bc04b3bad033c53307a6a61506b",
          "9c0a239e42df0ba2d2d61c5e90794b4916b46b843c5aea28e5843dbbc8e0a55c",
          "b31e82dd3cf3d794c4754615b6d223a732c547346938be91c631cf0337eedad9",
          "3312f89f969c0e1a41c06dc309fb64989d167033b8fb45ba31f94b0439ee025e",
          "4e32b2f892e4a1a6c64a846f1e0fd550cc449eb7953035161096f4baf509122d",
          "ca4a74b077a8a0ff1c1e19766dc253becc93fc477f5c70addc31fc07ade5cb42",
          "e71b32a45238adef980150f5fcf90d5bca17a674ecb3bf75bfce16b6e29a00f2",
          "355dd0bb0298611dc9b833e6d66b3b80c96559d775cb7eb6d256aaf8341a0022",
          "ea6aa6b74771b2919c032b3535e44714b53e5870fa03ae4ac744ac7f859af1c2",
          "3ec8c3625bcfc062ff4d6b5080bee2cab0cd10137f635ef6579ce048eb6a0348",
          "96ba54e9f34761bb19047dad2317e5184bc250e25f271efe8d30c6c2ccfd549c",
          "dc09373dbe17c2b95ddc653c5077d90a3093244dda7de56cd34baa87c71de8f5",
          "8b5aeffc77188a216df421a8014f3ae727469f5eca3fb1c88f84c3b5ce774fb4",
          "16a40266895db4e21838926346e97298d0154ef76e610e6d2344d179bf83c4d3",
          "74d38a5ee635b81f3814959e9f0f5f8b86efed098a0fc1728f7e91d3cbdd6ad9",
          "961cd4ab26c7a99830cbc80af9397383ad53624bd410247feaebf1b0608c2a1a",
          "ec3d6ce194cbacdbcbbaaeff82945cd697bde220c5bf9a2cb96098ed1bf6850c",
          "7c760416b1716c7a0501a69b1bebca75d28262cd867fa2970291315438d015a3",
          "696a29b1529bf74514ea5ad9d38d5b7fdd6c7a850c3bd6f61569b3f76588b7a6",
          "0b43d2d29fc5908b34ca96b2c45f652f8875497fbd183bd18d199384f7d08b67",
          "e0c1b6a82d40b983d7f15a89a10391086a7dffa6476b2bac04e30d0593ee2af6",
          "da5db564f2f5cd3ab91ac8525dc4a25dfcd551a8bd0403542081ddbae8171c39",
          "b2b218e1bda403c8449df3d298b7713d2a43d67e7d6effda92ec2d26f076da5a",
          "f5a613d3180bb54f7dcd825c4fa77626a954bb52c44620ededb7064cecb57105",
          "61136b3a075c2892f8e587a57d68b6dc6acf154fdd27a9e3fd1e5a3c72068918",
          "7d1630fcc12d074dc949527497ebf2906ac9e6a8a4ff6a1d4d54620daf76213b",
          "2b779f225841909906543da3ab888f87456afb97c7635050807da6aefd8a7c25",
          "45439824cde2f74246d22962ba50c03e94dc1db1ea0fcaa7058bde1c3c3856f5",
          "83d4927aef94865f8323569defffb5a7f1685d6938047c840641d8e3106fa4bd",
          "dbc0c6a0c27f1e6d61e4d1aec5fd708c17f293cd1465423ef80ac3741490c665",
          "6172bb5a9fe39a1a303037826972a675a187c7adc584f7ef0d231eeb03bb9375",
          "47fa4094cf3e842fc5bc8f835aa48d6fce446f9666970fa480dd4843af12d9d5",
          "d38d67d354fc6ad7d0e10c26f00c8f0f4d8809cd912574d92e168b92256fc595",
          "e4e26876cc30992a504275cc6e5520aea0eecb5479eadcc8628a46c902386533",
          "6dc16350369c202c94ccf7c8b15348680f5eb911e83c39d7ed1e078d6d5775df",
          "7299407ffd76fb970443f76aec0285ae1a0c6af1c3dfcffe7d42e8be06cbe4c1",
          "e1c5e020a39faa4d32fe36a8c4716baf52724e95acf8ea2bc821f33c3e9f0ac6",
          "f9725f1c001f74a228b64045d289f989b9f331694cb843be8d1c9871f204752c",
          "e37d31f75700f22835568f3dfc1c707a1ea16048b38cd6edc19ae61c2c4ed1ca",
          "ada0c33a4b08a03a95d8d9e1ca1c096fb893e970fdfc7a2e49e0716751351fab",
          "53d0af11f38d7a9ac522b4c4e2b0e9987d1fdc495dd7437e6463d46b6b24a7ae",
          "58e83229a12c54fee7a67a155af5a03a6fdf0556325c7e03cb30f892a8c30ba6",
          "f53e755f38739ca6a9d0a3b662341473fbe16ce91fe47598ebffd1207deb0487",
          "93bf3e7fe10f50b9edd399c40ff0763e6054f6d3af3f6c4baff17b0acea4d20a",
          "4f1ac201372dc08c2541c80d15170c0bf542c08366b4f2f1111473a19e830e20",
          "258839ed7f9a616a28b6ce15f50751c851b09565be6a4a9127f36fe21c4aab5a",
          "eaccc0b50396f58a5bea1548996822e2b2cca691023affc0bdd240b81148661f",
          "c75707a8e69f81a730cc3216e69a71f9c1cf91087b4c08d0ee33dd723b4e14a6",
          "b0d4f13e3b553fd706dfa00dd433a5880c1434fbfb89928035eab9a796c8e47d",
          "22477cc9ee55f9771716f24356cb38bf8e72d717857b0da08b68ca1f0f7f9b5b",
          "0d4fc47cd72baba073368fc514997f3d6ad9faaa8d1fb626e05379c8859b7705",
          "d0a973be576a681976a0bbf0835d0c9cb9fbfbbc46a1edd7488270f55057116d",
          "0c69be476c0ce9219c9a2d37e11bb3786335cce12643b3527c2be129967d48e4",
          "4064a42be88db8e6fbb12cab94b7f9b50caccabbb9f008501031dac1ab34b00d",
          "15c772d6a52c254e39678c1d78c67be283139b786369ae579f13dff55d2bd05e",
          "349ae3113d07e882edd4ef62b1a8e547b0266ea6b78f8e4e3fb3c3f6f25cab93",
          "19978a33e7b871c4f568d95977c5c27ea3990e27338b50fc76f0be35a4bc384b",
          "54d96fe9cb200016fb06b49ec88152526defae5b5117810d938847955f646117",
          "164710eaf0ba1aba2dbbf22dd800015dad622205e243cd5779957eb958b34764",
          "1ed8a2f71c54d4c409b3196dd63c29b9e8dbc9e958bdbfabe8703a68a5bbbc9a",
          "77a7a2250437a3201f8cf47a713e82b5c77416a89b4d17a8f733b96094e08231",
          "5891fe6ec28419aff3cd9e698fbf06b545a4a7cc55a7d0b825d951a818127c11",
          "f21ce5954efd22e6a2c690b162a68293c92dbe5ca67ceadf3561c785910b81f7",
          "320c244b751683ecd83e31c2e4fdfe782044639250fa3c6c2c22cd60f95f1048",
          "b1b1fb69771ca8ca36dd7c347ac5bb67c17252d8ce74dbf9aa56455b8b374a4c",
          "4bb67e31b40808a46d67432b93532a49b569ed7ef9e5d7bb3d4ed5eeb709269f",
          "025c5fed091672215a324b7037dc34d17ea0a6eaff46ec4b795e618b81c51074",
          "59618bb8b883d30960655dbb59e94fd06aba29e8890541f508444b6cade379ae",
          "9a7c09aa108c3d75aa699d30843bc6950c4942080959b104f4fbeaea09e3e8e7",
          "f1eb84255737a57eb8cb4abaf3b8fa16d481819165ec159d95fe807ca025d088",
          "22880d4ebd9180b7b0170c7a9ea4637c895241076862ce280c8f1ba07d136acf",
          "526051b2bdb737aea08303476870632e45b80c7457b0e3e0bbf0e37a82be58d8",
          "5ae88af93879b11e6ee0da6447ed44fdfe61849fed47043638874065523373e0",
          "a0651898b2786ee0c86825062f3ca674eb2ce9793a0ee98e60f873977825aa4a",
          "8ab627c0463d381b3fe6898ac5dc97886c7a56d76daf5bcfbfa79f5aa95a98b3",
          "beb09fb8f8a73b6ae8457cc649b042cc6328684c58982d4e8f7e88e8bd589cdb",
          "1e4fddd7daccf7f620414c0017a7eb09504f351117fd2cae9599cf7d986f34d1",
          "8d939975d75670eeabde0111d0dcb7b60d5d453d1cf42c20df5a67085c970f67",
          "59f4d6eb69979cea424ec63be38d7cb9e2b04902951701c8398702dc282d9db3",
          "05dd8ef21ecc3fc1b55169c9c955ca1a4ee2afd7342af76d8a16cfb08834a9fb",
          "0f24e21fc99964f3274e2fb2e5ee3a530d04022214904e99a65ef13fc0aadef5",
          "5d9a7d62f4bb4ecdb2295fb9ff941e437119e7c101fc6495415eb4aa3f0f9425",
          "ef7650bd0ff30ba011dcbcfcf212f3907eb91ba53c5b5ce2815d14427bac9772",
          "4ec680e0dce6fd911d7b138117ae7cd6205bd06a080fd2d542462ba08cd8ac32",
          "53aac2b8d5c10996bfd0ada4ae351b0895b24919aeed750eba388dfd21267523",
          "5e892aa03d5cbbff4a6c360417079977f1fbe61504924d80d6a517b714bc718c",
          "b3e0669076b2dee663a7028e7a0491a4ed2b8abd3a37f684b00a484107229ec2",
          "a78d94ac891edc764ebe8127b533869604a72e6cc78ac54b7623d96022ca120a",
          "c712e7208ecd8da9d741c2e0b13e6bd75b8a51d7d154e4b57e4135c312062533",
          "6034ca0d4975cd92973294cef55f8b8f09b8be5b7e9046add3f3f9fa63f89900",
          "72e43d568df7a2585d1a36f0d37f48b5b3d493f014c75f87f34180afa711b3db",
          "ab691baaf4bdcbe51dece345c26a1f8d5624fe7de940ab3f0316b7d40405cf40",
          "c5f129b55eec2e3e9481307daad010add41fe910b953e494ff30d811c29a8713",
          "230d57ad61926b64102e742b600f340e9f7b58922bdbd5d59d0178f6ad405d81",
          "38028b4b3a092f9c7b59d3d0cdd381df76a75f43eb82aeacbd4c8e103972d7d1",
          "b34020be0686a02075794f57d2eb52270d4a7c419fd26c3bfcbf37cdecd27753",
          "a652e0d51c74940e4fc1f112f6d6e31590ba66a33f14e14298d70ab71ffe3467",
          "dedc2b609d0268d1e16d6d3c8dd32207e4f5773f8e8bcc88b6f125031b9c295f",
          "8779faa080f6909f6dd7816e4b458156da7b9dd0271fa482c143d7fc5406822d",
          "f4a2568e1ed5049acb6fd56fd8b3635721b388065bdb75c2a6f0326526caa492",
          "8a2e844f39ee448b0948d12b518c29e2f9d3d07b1660344700036ab9ccea637e",
          "7c35d2753486708a42f33a76007450fbf92ba7213380f45e6614552484b22e75",
          "9c431229abdfeb7d4172da9598cad61acc55dc01308fcff8dd9063dffb1243f2",
          "6c5a966ce6cbf91062b264bd6ef42304320f2ef59a06ffad12426f1db1544299",
          "1326c5ceaf3237398d6d84d10517d79db9c114873a64f994983737a1dc7348c8",
          "acd16f81ad1212adca58e578936ab82e5ef7c3c47d96b275be5de75d74ebb5d4",
          "1b3370814c1a03e85c23a5882e19d45fb9dbff68651bdb5053e1ca6b69af2571",
          "623b42620379d80b1082d314c0f95a4dee39cfde82b98f63ea6b9f8ae926ed6b",
          "68a996698a5b2cb4d5c5a753f09fddf8066e3665c0bafbfa4f82d5cdda7c23dc",
          "f5fdcbdccc8c5432252a9d49efdb76facd53546061fdab82a811f0ce7fc68064",
          "4c53001ca9931fd3c6a8db77b553c31181830c4dfa8ac88a1c9a0d02f36a5512",
          "715732a6bf40a6e1759b2217712a4d22ebb97a6791cbb817d4400365968c9c4e",
          "f278d19453ab78d9cfa056e40858239313cdc38e541001a352e453a96045de7d",
          "bbcc5f344775fb91872559fbfc578012c5f6fce5a770442b3b210e8797d4ece6",
          "37e4ed0dc8f52f39bb1e07f4b87451fa1ea536aaa6fd1cca5c82cc5c77d8ff83",
          "5510ca2053361d7019aeca29d65cb1bd3cb9595eead8daa6a15db47db65a129e",
          "68c7e6a623022806587bef7594ae31ddbdd85fbe88229c44eada23f8b7f46e2b",
          "a6daff8c341c15e1cfcc9cef563daad7577b09fe9bb56a663bb791d612821404",
          "4ed7dbd51c444b70b52fc45307945f07c4ed174756ce79627a7137789e203996",
          "319f153e453d1de3cb8a8a758fb202c3bcf678680168a4ff082ca5e44453cf7c",
          "2a99067e4a9c4907c04af287348203d87e04dc043aedc114caf55f8ebe35a104",
          "096958ff3178841a9ba2815875b12c9f0a40ef94e048aa4c2d9893304e1f30fb",
          "f4d06e1be3eaf77722ea32bac617c70b41d9b26dee3669adaf429d9db2f96848",
          "571b2d6a58707bd033452d9528876e130e449cf757996a06d6fa4abd4bb7e718",
          "9d327c6656a96e748645d8ef9cfe572a2c7efccb163e9b52fcf04a872adedf5b",
          "95d7dff8cb27f55e5bbfa8b71179fc0d50cc2732d3901d964eaa97e41e7202fa",
          "342e5bca0e40aa490e1efa343afb8df1b6e1f447185ed0f6a917560814e567eb",
          "c05fd074050ff09855f47faab32166e9cbb560a99f4f6e3a7a4eb802990308c9",
          "ec5abcbe3e90b34016d370992cd570fc8d6043e9c605fa72f0cc888e1471c0b2",
          "502347fb60fa6b818355c5f24f9cee85767fb10875e130968ddaa45a1faf206a",
          "6d4d729b32bae5cdb28492ea233f93823ea74485f5d5d9e81757d1baac5e4e06",
          "8949107ccecae0def576f4a2241635acd2f707780e2bd67bf2a06dbee6d972f7",
          "1e92e36689585a57bc1773fc5276b9a1289a665e5593a4252a90a36503027a6c",
          "8dffb693c5a3e9565d63c39690870bcd84bfb68e41bbce1414a275517dfc07c1",
          "f1d9f7881284d1b279bf5f7e5d8c6014880ecdf7294f369d80438dee15e6ffd8",
          "fa363f0ee94d40bf2cee6f7f909140d15d3bba0fb0ec0f4f79559541835d13fa",
          "f49c7bfcfdc7a653c93f2d0b04a045607ffabf8f3b53c8364f1f62e188451171",
          "d5b459e5ffbe51a5e1dccabfa8718efef1b943522c6caf6c8ab68126610eb4d9",
          "e1567859d4cfe513563fc4b35ec42c295c0408730c4e62a31a15a6a0cdf57ebb",
          "4a4dbd13448a8b7784bcc16a1d44bfa6cb5fe4e8b11776792578f7095c889fee",
          "1beffe68ca9c698c21f76b46370a33dcbbaacd53c46b4005be287d2603e0acc6",
          "b110f6dd7042359586aef9a7e379b5ded3f100e5d7470530d2e4b637c08269ac",
          "13799335725f78448064b674412f8ec60522af3238b5b66ef14d49b0b1d6670c",
          "a70433a33a3cf7255c8a74d8fd53f9f4f279510222c7ce6d9da73116f8b3960d",
          "6074df62b58fef38e971454eb4e2d420ada12498986a27005e66dde108b173d5",
          "d2252b3731d4e1ce2a905f2fa65da15dad1b47190f9337c938a7676b0bde71ab",
          "daab5e5bacfc05e782425bd78429f89f614a30e8e12adacb9aa74dc7839edd21",
          "521625ec152468b89746de0de9b59c7900632ff982e26fe4a88db5ab2c673f9a",
          "9dcd0902e7eb4e8cb3d425f0ce2e65f3e937d5535e39fec4256e4ee4d5046234",
          "cb19b404d096ed98d5d22f4a90ef745cea58be637ab7e1f445c51b82a69da07d",
          "19babc9ca6e7253b87eb6e4300b0f75771751e9a210c1e779a4002a9dd7ce516",
          "e5b1907107a2863fcca0d608d80d59ba3af19bc388fca12471760409359fafb9",
          "3cd61546ffef1d70dd95a68cb9373372a5cd34f1932481ba4c2085f34fad3f9d",
          "7eaf6fae91a98535edc723fbaf8b6c29fa6ecf38b7c793128249b84f74e20e58",
          "84e54928cec9af6af150d2053aa3ee94c71985fd277d935750b8c7710e45cb1d",
          "7c94d2aa08a482a51121d721628a5e70cdd6c6c5fa5734579253aa20ae30a394",
          "ab29e6053b4b1590bcf05e3bfbe0ccc7b66385aa710e7f8976ecfaae725d1edb",
          "05600020fac446d6bacf7d6d0da5f17e2debe95d8ba0d32daccf9521414ab18f",
          "8cf42663343083978ec8c6d1c81c21ea60bd5dce9b8f07ae572c073bb88b0f7d",
          "30bc943b85a3e88305e3a2fc886134f009c61fd3d98ef9ce31d94c15aa504014",
          "ca2c57cca02e99d56c4006f57ba2718c665b05df8d7b0a1f55ea9c5baa35c45d",
          "eeda60a08b0b515fdb3918e457627d1def6898d8d178b473dd5be3066862ea9d",
          "e830cbec766b48db0e2e280511df2240098077d984f5e8bba57b99491d57c825",
          "97da27e42af996bf5b39c3bac2a36b2e741aece91313e4c0f9d8a92fdd850355",
          "229431d401177b30548b0f5bbd4395d319fd58cfde6b7319452cdd070de0948c",
          "cf11fc7c834b4364c28e82fedf0db34a8f46bc3e9a06b769d7ae4fe86b9aa33e",
          "d37729a2375367a8c32c7240d05c33c27fb1924290ce7b2cd8dcde6a7be1f455",
          "fe967dc307d95d019340d7053fbdbf9983c7311cc2679d8bfeab177f3cddaf00",
          "bf3808ad8d1848a2dff6a1f3770c463ccf139d37f892345c38406550f715ec07",
          "0509bc058d7582781f3fd3b7576ea90c605c2eca2213d2bee9759c95b0122c61",
          "3f87393ede349a22d4ae06c47a8587b82dba1c0b8c60e9a371ee35a1e45be354",
          "e33451743b6aadac36a2fd7bd70d218a092fc422a7f9aa8a551d75b0677994d3",
          "0b75c7442c7b049e590e217ae6786924e009242666cdc03c589fd4abd13445a6",
          "fa5be04668595e67345a62b5cd0cc9c275f879f1e7a31fa9175af783bfa1b1b3",
          "a18b321be3fb012c8c3bc4ba8d6489a96767226812133edba7fd44f0cc5d1d70",
          "090869accd8c55515989e192b88d4409d7142bb0c8ce1913fc55675eaf6f49e6",
          "097709f5f38b0c0cfa2371139ca8faf933a142f42155c50fc5647346e9c9e83e",
          "90c972da41981647fe9d6804a07bdc7c0e4269c48744327ac133e2a3a4e95e80",
          "51946ac79e107e84efcf46895c3ce58a5af6feb7615bb61f920cbd8af9ec7fa4",
          "33f140f4fa0ea57dd0cfc2750f46aa67145ade35e690a934a9a8daa48d5c3217",
          "70de280fa51705afed4791eaf6ce8d90b313214e5c59161aed395d296188f6a2",
          "ca97bcc373656a82e55e3ce22f171ca6493eaccc47cb9bc933921cf944a18fc5",
          "d00169e5b5051289610e5e3df3b76164843825c903284daf334bd03b876381a5",
          "7c82c86fd5ec6a1a80647b1542e4bbe69b8794db388ae0fb409aa1bde545c2a1",
          "a0088d4008f8826fae0fb445aa7ed1229687b5a9231813b58e7ecec2ad943b7c",
          "9f270fbacdc5f0277f976a4f88e0507d50aea0ab1777f68fe2690d05101a2ca5",
          "96959726110cf40d74f97607cf65e138758421a5bf8ef8562c2eba2b4e258e03",
          "06d91ff1b14cfa58f7ed14f594c80b00e8e65faefad8d69c89a362c2a1868fe7",
          "72f6e6d7524cce1853136e76df3ab9e8ca64f9b87df77bd81943404c136f078b",
          "191e16dfb238aafd8932919093a96354f87c72534f03e8e3920e4491bebb7347",
          "f5d9e1bc622993c02311dd8158806732af86bbf671b950b76fd1057bcae6b752",
          "9c832b32f1d7f7d1126859270dea4e1755018c38f0efd31b352199d6c7508eb5",
          "493844297371f120418782bc7fd3f33c42ad01c9fefb2a9e5c70eceaf869acf6",
          "172771afb7511a27fd68de895b880f4b3f6d959bc70ef2ab1c27ce11042048c8",
          "88c0de2d909c403dadab6d7ba0fc48517178565cfea0e780b8a817d697f0fa01",
          "d447e916dc4979c4582f31f5d249be1491fa318f0eb6c133d4d4914a20c343ba",
          "d005405c8cad88c687f283c839500b07bccb2500750f41a2d8c7c4b0b8c67491",
          "77f02149e34bd3b83ea6e285c2dc9f6630967c6d5ca18dbc0c074ecd466a22b1",
          "200083042777df5121791cb53bd01c7d793b1da4e8c42676cf17d69614e5089e",
          "25520749c64ea4c8df9cf39604c421a24b54340f020883e902c7b1d17cbec5ee",
          "b3384fb22a9bbebd6664516c25f81033d286d1c7234e8feb9fe411ecbe9f6568",
          "c83889250ec9eeecfd4fa05ad97c9ca0efaff76d103d03cb4266a8c0d820390a",
          "61dbd2a12ed6552f4429ab83f32528f2f7be8e90142e142302f06421e3c68c10",
          "c8707c3b02ded4458a33a2cb2cc31e471b4b1cec599827da00fb3c4776ec254c",
          "7854e20a1688692b5803e499ec1bbfe130355e2712e6578783134b4201ad40a0",
          "0b9e43e88eab5756ed213dc9d2e5d6885d5669d746bd5ebc2b54480e6b01db8d",
          "3322ab428d961ab0291a78d09c22e999d486255ded4957764096f67d18c6e7f2",
          "205a931fbbe6ac64ba3c1f48a8b044015053470fbd943e821a9862b933879c3e",
          "f6be25f6ccfef72c58d5d875cb5ff8836b4afe09d8df28d8b1c18ace91fac5e9",
          "face13d9701a5c421c958aca3e30ecfdaf53e12e870e7f238dc4297caedc5a5c",
          "863f0dd8dc9830c513ede586d9a953017475ea11d118fc06832cee80d885a8ae",
          "d1d4751704c12154fe0359a3b5cac95cc31649828ffaf2a03e02de3c7d027b60",
          "9a64c9bde30f97d65011bb48f68a0e41453e6658eb4f21f6f1d1cc2b02f70273",
          "7547b20ab94e54b4f61639c11968f43f16c3db5041a508e1c5bc6188e4e6ea39",
          "8ec90c5f5594e4b83cf9ee5d60d6ff0f69b7410c62fc54297dfd38df51273123",
          "f9324e0f65a89aaa8ff223abf016212d99aaa2715d006b28aa3c11baa5f65c17",
          "febd799bb954604d81e16df2230cbf7ecf670ef8e2ad17820d4e84fb36fcc562",
          "8802fea5a16dc10aad515027a5c006969d8813d8d16323fbf6e819c22f74e9ca",
          "e51ec5981f64b6bc394be9cd7b510164de5db0b9108823a2f541579cb4b981aa",
          "62d9e9038157021629dd942e6c5b2e002bbb1c595767d390cdee50ff20703ee2",
          "fd25b68a82c9a6b989f317212e23cf0a445ceb16ce36de9faab3c5bf984c8c82",
          "0c098e2b3e9f0b73744c4e4ee64895dc4e5a66d80636d0524c611fb30aea3c84",
          "eb691e45218e15980fc0ed3244bd04fbfd16929ef9b8f78d2fe0516d9567d71e",
          "eb57fb405d1fc1fc9cf50002409b2c02cdc7460302d5cef68dcde43799a0c915",
          "2d82385e1b85073c306832fdc1922ac41e9b8004b0a7ba7426d66efca3312c11",
          "275a42d99aeed2da81366bf94d02f556cc2897ca75750cef6634b7dc400cf659",
          "40c64258b459a74761403015740c2e43394115d2db5117a577ad699b45e30e3a",
          "03caa6b5aca8fab1a0ff882bf4df919527db6146ba70582e2760033914a848bd",
          "01725a511bb9adc77294a00998cc1d52ce87edb75574eaea6d3374f72b33443c",
          "42b3b63f87a7396969eb3e7d45155afae76cb541b20043c4d81d5f2366986a1b",
          "63e4d429d6bc0ecda87a8f240ea11a04458ea8e20caca6688292bf0ab3dd029f",
          "81d0b926bdc0ce34387e8bd77ef4258636ff2e6abc419afd136c00c36d467ffc",
          "adca508e67eacdfd0440d0f1647564ceb812cec2619fb846e34d89878b4197a0",
          "567f92b897d6025e01ffefbc48d4bf4b2092e600a70173b860c16e179ff4b82c",
          "63abef681db11fae4ed7ac2109b1a015d73797c3fa9ff40500e0f2188b80dd6d",
          "017e87684a8932bd1da35d670b63560e6b3076a42039a1fee0a28aa375460f5d",
          "e8219ef4acacf747f157de7ab14412827f31362ce51a2fb2e6cc096c21aa0840",
          "27a17a8ff412e4c00f83662fb0453892667efe9a97f4038f254decbff1c8cb95",
          "0d780f8a51a7f697df1a801208668506a4befd460189941d4665b00ec9fbf4ea",
          "49d8b6a284013057a1d6f22a1e4ca507a6b7c02b3d63e73039d4533a0883823a",
          "1d8466119bb3d5624c7748b64f69d1b9d62699a3f9c27cae07394c1389e15c8a",
          "3b08a2a778401225ef71866a51a0993cf468fda94c676fdaa7fdfcbff32ff869",
          "7c86ab61c450092aa515e8d3eb87ac66bbc8431b63796d331ada35ca1ac0a9ea",
          "4c198a6153cfaa29d75f5cf5ce807e9160797a8e2a636591582fd436d9867422",
          "f2be89c1c9c46c84331aca0935593b529dccd194362d191e4dfc9072cf84f648",
          "1aa4848d45dd29ba410687dca18143a779805fc62b8cadb8acbc2980a4122478",
          "0095e3aaec198efc59f9cd3ec5902579ae84779168c8081dc5fbaf10a985b037"
       >>,
       "10cce1a82f0caffe9d9e59d6314697e92eb230fc93a850cfe657a89b9ad9bf87f12/01/2018{\"amount\":4}",
       1,
       <<
          "d734be7f382d61075a045fdd6bcc3bb2c4ebc7e2c7ab400788d5892298f2d373",
          "cc2dcdb242ce596b7dafb9c989be82b537a54ccb30ba64d69e01916b263c3322",
          "4eeeaadb4ccd3acc8675979c41b91b91c4f6ecf1cf9e7d6efb6853cd96cca115",
          "8eaadfef5733661e020639f6f7a0dc7cd4714f11488afbcdc8ba44cdab3db726",
          "9397473ceace9b4850e87b3dfb5097c61840e37a9d266e8966db6744dab52254",
          "e367b32a894da4245d543cb778bcff8682bd23ea8a7370cd445582099e113a3d",
          "14b4856823e7bdb27a3da673f11387f4a512be66cb38510219f99037d3f122de",
          "a13a7e3670b6a429e15d6921a5e0cb5e4cbce3ddd7c4d4066fc4442fdbf6989f",
          "2fdb9bc6d69a598b57bcde7b8d8d4b773e9f28fdd2fd93ecb27c08af8f432fe6",
          "17d657b829fa1098e054b4e286a39abfca53eff52ead5369ceb4cd80becb5fd2",
          "f8094c0fd6c3d0f69fb353b460d6b2e401de0cfc88a07ea63c2852a7fddaddc8",
          "2fab9904c16a7b4422bdddb442097717edba27948adae0407cd4c10fb78fb19c",
          "cee8dc629523b4d26773a13d82a4eca4f66a4f996632bc55f012db5f9531fc6f",
          "9e17166feca4936b2f43ac5399603fed5613e4c70fbcc64f87816e076fb55e74",
          "ff9c448c7da46e308ed2dcc419405c36a702ca856f1b60b933680556348751cb",
          "96898b796df6ad4ce09c874d3146b747b41ad6c24f1d325f7d4da52c5c5738bb",
          "31da2cab12ff145c4fd35677864a77a35dca8423d6197613e3cff7a5ffd747ea",
          "85b87d2f59165dfeb660eb0546a033c6d062db861bd15f3e50e956beea674147",
          "4a0e4d948f16934f7e9559290884af216b2bc54483956f83e4c44382f7097ea4",
          "46259145979c660976e5e6e5a8dc8d90d39e165e587c1a7feed3f9ad069a631a",
          "70845b92d9c3cc5a091740fcdb4c94d9f8d3de68c9392a69979fc80608fd4746",
          "98f6e2485b9505becc5439eb4c7df6eb3a2e545e8a502b3682fa553344ca9aa1",
          "56adfc834e29b4c982860b78399834923cf7a039d3b071c330de9eb6b366176a",
          "1198598fd11f27eb94eafa5f6e6e5c80f00ab095965f8bc2e228cf8a044659ea",
          "2f48eeb363e31ad02281beb2edb7dd61bfa5f263484a794f832819f8875bf877",
          "f7a7d303a7947322384351b96625a5d61ab14a585a15b6dc186629150ce91351",
          "ca1824b7443fe09d12a3f9e3b80a9c4a00ad8f99ab310445c727f98cf6b0a9e5",
          "afa1d6d8eb176511011e5a2bd5b31f7925f43db26e7d6001d5147850536d6977",
          "119b9e9cecc886256004148681a5c87c4e298819e6273c76709722753aed1102",
          "0f25093248a8f044c09ba50d4c36e5976f7882be7659578eeee94748675b13a1"
       >>,
       "10f1eb45fa3ace15199cd79a0a14b10a227096af8828b756a868616c0f68c27c312/01/2018{\"amount\":4}",
       1,
       <<
          "93f18e16fed884778ee7a0e8ebd4e588faea28fc4d620bec3098de1a0a7c26f3",
          "5f7a823795b57268c3a9519f0576cfc19827f92f1fa9011fce2a662188eaea97",
          "7fe38250d66192b8d9bc09b7891d6cf982a0c7b22b333619af0a21e2c4e3579d",
          "b40ae73ab5bc43a599e6688c3ba7871e7b8506efcb0a4525d64f27006d0f3e10",
          "993e153bb1e4730ccfa7024256a7cad9302140c12b36faba72f2cfecb303816a",
          "55752be778611659a85ed0ae14531c7c637aa8cfa05f5906f7f769871318e002",
          "c9ec8b2fbdb996f7f4c867298897a8faaa467153954fe3ff0ec2a8b5d750cfe5",
          "c30285552618f01f9557e8dfffdd26b0c64f172dc9b66dc133dcddf4e547fe41",
          "ec9fcfc8caa06b1de6871a96725edf42584f1467ed632fcc1024c403ac5887f0",
          "c4a47f29187ea486c9517e31db372b4d1e06f15cea3e81675fb2c923f2ffc1e4",
          "bf5c72231ceabf8743c684f464e4de6daa6eaf89d59e1289ad43712a1fdac761",
          "0c8a5336b58d0b45e3a0f199639d83d9e6620e0d45249cba182570a240e20dd5"
       >>,
       "10fb52fb1d73028bac4795eb63b8c9f29c6156fe6cdd89f15c228eacc2f0b6add12/01/2018{\"amount\":4}",
       1,
       <<
          "5dc0ad075584235410c6224a599dce2916dce93fa5a6026115717f840847630a",
          "9a5b41244590bbd3ffd423104aeac01791673bc47bac4e7f379838a30c56c890",
          "dbfd8802a73670821e237f850150fe5dfef5f77d8e83c0d00737d1278c31e9ab",
          "1c368d8bcf298db51b85fc15b61cb19b1be15a5cda1c7224a21157863e0dd9e8",
          "c7e9812a6766448c27d682dbc105a14f29d041af166a306cc1083492c01c4581",
          "7e3dc19611a872cb3a59b03f8212ceb6d1c20efcd5fe30042e56dfa8b441c341",
          "f25a568815dd848c66ef9415e1cce81cf9e2f48fb87df66b77d595b911d120a9",
          "138ee501778185c75fe31bea969856e0b1860d04b28bafed55bf28018fec455f",
          "d1ab8c0ed0c177ca00468c7b9422c2aaecea49673cd68d6eb73edfd5e0f84f7e",
          "e0a219805a2f6fee5f05f5fa6489475d74c64668a0abfdbf6da0603e9f2de6d1",
          "f9c3075d3a1ee71f2b9b3b5b9e7106595c54133b29e60707138dbcde5043fb4d",
          "b4665714764863c184d89d719425ef3c37f10354256a030917b6c53a1dda25e0",
          "c20d4ad5017b4d80cc1d2d81e1732f8571d5de079bd237183da8e611ff05a7f1",
          "78f13dec4afb7121f8a879e6520587094896f41a97d1c88578d4619af0f33835",
          "84da70b2d4af7937c3485836443f0cd0e088b66dc0217766fd6120e2d6093f9d",
          "04e645a192b01c1d50153e17468a818d6035bbd99d1e1b0119688903c99dc349"
       >>,
       "1b584e4c01f1225d68276ff7ea0e2d07326b3a1bb4bc98426a77b3ea195896fc212/01/2018{\"amount\":2}",
       1,
       <<
          "ac84f6b645561fc72716c2d3892a621530a27e75fa991c4e43b84737990bf630",
          "02100d3e0fffcbe8757c26ec1b602e8807a78c0488cb5612398742deb65a97f9",
          "cb1d18eba1d71e920fb736e4969ce5f45b0441aad09e4fad9a311b36d3dabb41",
          "07bb552cdd5a00dc12f573476afcc6154b264e517da1295009d4a0d7c8e3f78a",
          "43ebc27af4260abd5d92a724398c21ff3bad6e1a10ce584104913b1c0363fe81",
          "2bf059d8e87c768e599bef3171294721d216403e128ee21f5fd63f11e0c8026c",
          "05b442fb935b8e25c2dca621122711ff7006934f75ceb4c55015b41107018c77",
          "818296528873cdfc6acc90643cb0ecd33b5aebefb5987b742ab4d33e0061621f",
          "01797187c45f07e1e62f9e7c17a92ca511334dad9e28ed9abf62268f9a67b5ca",
          "56f7164e0641f8fc6cc232933645bc700d191fd4b61d9da0ea254644f365cfdc",
          "ceae67d414b559abfb598ea838bd35fc50a4bfb1a8e8bc226e10c7b06d7d2e8b",
          "5c8ffa4596b9bc03cf448c6390f96246a97f3ac47d8c1679fbdaa14a8fdbc0c5"
       >>,
       "1b584e4c01f1225d68276ff7ea0e2d07326b3a1bb4bc98426a77b3ea195896fc212/01/2018{\"amount\":4}",
       1,
       <<
          "6c1b39a379e13ec82f9d5bda39eadaf162ee87b12f92b4238386f267044e9c1e",
          "d6ac6cfd33baa7be5c3a391b69d2b8ffbbcc1e58730f67ab876b0e183c3644ce",
          "415a6454c9be907c73e20115e8ef02736ea79c9a9409f6821480e9e01794ed3e",
          "d2e9beed52cb5273b9e7c64a1350147bd55741d8bfcc6041d48c433b96a36d2f",
          "1a1afe5ef72a3ec12452e2664d150d1793e788dc8e1fd9ad54d3d948fbc41458",
          "e37097ed7e1e8988725c60ce7270a7a23f47c8f0831d8102de5dcd6c42df1149",
          "646cd41af4c507e85f6f88d348268314e6a30d3f637a533bafb0d4124412fb3d",
          "324a65a878c0229636fa482ad53a541581b79509aca9faebc3c5c10b53eefc2a",
          "403a76a6e526bf6a156ff723adacac089645ed45f6d5ed91aec6f112597c3dbf",
          "9adb34ea9e249673ec5da6942c2ccf803b4a8a27790a83fa5cecd2cd083a5101",
          "6ed4360ab4528cdc125434f86f296e54bf322df3f91dc302353e04c3321a2a75",
          "ba1826a25f01f001b19a25a296ae66275d263db531676d10868bcc10b758b0a2",
          "4a57e36b9f1cfd7e6efb8cb6925b89ebfa1e0c9e5856ee1f8365b2bef5f74a39",
          "32d9d54cf3bcde1720c25962af81a391a69cdcfd63e7178a62486d1a8dc2e899",
          "0f1eb45fa3ace15199cd79a0a14b10a227096af8828b756a868616c0f68c27c3",
          "d1d795937875799f891ed5183d6d4b97b2de0a75f1594745b6f391f43bae2957",
          "cbd8cf7a93fb6f740e90c9aaa2bc0ab36f704d365aced34c2ae7f6be600b6887",
          "43f124cfc20df9934a44d8d38415d0edbf1362b6b8a264d342f3429c39a5ca35",
          "08a59fda74f503b5cc6a70da1d7a18f85cce0fc89e19046656027e18a0c8f6ea",
          "bc357f31ad5b3b664f1c9f9660a594621ec0b64a26bc153017c518815175e548",
          "723f87bb33eb6a111892e2428d85d2a918585365583ed398c2c84716b8617371",
          "d1017d438aa415302038890d10502c52f0e14e84035229e1e831d25555dbc75e",
          "8d1bd1f1a7d3c83a99466ad2e2e55a2c32e70d230b4b8a575cadeaebd609a004",
          "ed6f83bcd149a818fd80a32a09a1e2be1035745054b3c9921da199b3ea4877e1",
          "d4b84a1ac5b1bc467fdf1d84778dbbb3689a174221190a825d27649eab2f6163",
          "ed1aa092d78548e452913eef77b231a05b253da280411b0644ff1fa3070af456",
          "2c993ce86dffd3aa0c168624a8997f870d50f8fd3a4fb0759f00f63a44e12122",
          "9d1b5084dd18666bee87f72f16617c0a7a7e2a6e6fc8f9f0048a752543064870",
          "711611caf2dbb35d69c75b6d6b6110e76411b60ff9b7634710be36886eff014b",
          "129af9371c3b51613478c020ca69a3ecc4af2a8851ac37e64861a9b8afdadcaf",
          "4378ec36c82853deba6b3f9e64d0345547a5987f9b29afeb9fcb95a20216a556",
          "09730c2d1e14bae9d41e3464bc7ea3a00b5924b6c06bffeebf16e697071732ba",
          "bbcc1ce0d950a968c695ad564e76ae8f8c2555e029d2160461b0cf4208b66f11",
          "be6e01b7958eead062e2c1e791be720904f8ca2f627439a01462c5af95bfb287",
          "af2a6fef79df9b5196c32e00250c69dc84e3067156320f6db8e4decea75ed945",
          "682aa314fded246c143c8bf0e2ca9b750833b4498ae90a07f5303b4b0e730fe0",
          "7913525c42e8fe06829f690f43cf67780030b5ca0eacf6a036f7110feaf011dd",
          "3e0b353b2c5a9c552bbf1c50624d6c430a3621d8f9c57c20c40afb5bc42916ee",
          "561c00be25557c566c6e2a73e1d83996b4e1de687be8a360b7b95f7ac7fe5643",
          "d9a7cefd71a706a64d2232d8b805ed60e236a57512277bcb7f708f15690467f9",
          "0eb8c55f63808685e60245658868d73be9027cf812682eeb57456e01c0dc804f",
          "c560e7c14fb12832c544330029995a930ebde39bbd6fca7fccfc2af3eb6cdc05",
          "c406c72b2d0d1a0cd9e2848dfd633ceb77fa12aacfe8dee627dde6e002de27f3",
          "5d902849d8130e76140c4e661f798fb5d2593d411a874cdc1a624227ba572998",
          "aed49a382dd68c8eb3f9efa8a161f34e72d596fb8797c53cb23b09c31b4a0289",
          "e6efd015b9835331a9db547159ba1482262f10eb9aeacc06f1f91717fa88041e",
          "1933fee61a01592eaa9098a2bbe3fa6ac70d71a342bd4036bf029a509814817f",
          "96dabc90d38ca368786b8d42b54555aa1463b3c86799a804236d20af3be872d4",
          "d2e83dbe18f89e3f14f809b5084594d34520e0ba428634ba65549755c968d141",
          "335a714f2d6f2d1030cf173542206cda0df1d1d3da05657f4cf7b7d7603e0119",
          "0a3d2e69d9617c683bd7fe82297a6f166f5fe0fcb654bbe49520799c721abd56",
          "48ba86a69a503ce6e364be1cdb5e48a32127593747464f610e7e6e241703ea0a",
          "7fae8ccc6db6e472b7133aa3e05ce08eed89c9d1fbb2fc706415ad32ef89502b",
          "107288c78d257a331268a7611f6b786606ea5ae15ac1bf21bf0b0bb8f2c00c69",
          "f5e97892eac5a698f39bfb0a106f8e82c810e4299ee8fce2d61c7365717fe9d2",
          "295ad3a945749e18678c7c5dbc1bcaa9e0408c2d0276df39f1d282de24e5d034",
          "fe4c69020497b818954ac14274773c3649e3cd873c69d176dc9902f30736368f",
          "179713417bfbe9662afadd2422b3dc85a209f9288ffc4ceda85e29c328fa17fa",
          "80bbc61f01b6142a6cfabf01a121015cde9fcadb92e6a9e041e8ab050ac0fc2a",
          "212ee596350d2274f7fe7c08169b6ed12db8c2b588026a149c71b1617b0e5093",
          "79e79947bc3083dc2d842c7eb9824174e854e4070a35a14633f84d90274b2a03",
          "abea3e8e0eaaf963e2ec84896337889b0ec7a05f133bc536fe46bf9f9fb357a4",
          "23d03c4855b2b553754c245428120720e231effadf4b385050030abd2aebb464",
          "02b8a1aba2553da5d9399f44ff49959d509b5a08fa5b4c49905a21867364b609",
          "cfdead7cf9c4382beb77d0111086fdd45bc87eeb0f6e0c951c2a95f2ba2a9d20",
          "734631dac92da457dbc574313ca185fb90445af5084edc31e9967a8d744920be",
          "ec45beffb62af5a0af1e44665134f603a069df4d5073c56731576d1843397976",
          "855fe08249efa59cadad4c0173b4ac744019dcfc2d8dfeaa7a95b9f31e239571",
          "e0dcf3a8193fff8aa8118c86f538172a595b69b3f8e4638eedff78215bae53f2",
          "29df22ced79bb651e864b8162b31a01873e0c333165672820bbaa0ac1f2d58cc",
          "377016cd404f6e26452c76ce1d926960a130e1545c2599ef1e9fd936b30b0271",
          "13fe84c70bab7e957b75d2d285857953282622d13a7ffc466834d738dcef015c",
          "88231a5f3dcb0efd6f1b0dae71c3ef7c0b589814287e8726ee416ba67fbc411c",
          "5b89f4b6d105a723306ef893424c12627f5bdf3de04586718cc14e70abcb345e",
          "c2d2c61c35de66ea5a590cfdc17eeb1e4b179ba7ac4c3a6703a2de88b8e0f991",
          "dc76cc38e5abfcc883674c50e3a59ddea740aba1999967aabb84bd6eec332b36",
          "166986ff72c3cb5af143175565d4f799073498e8064bb49d03af1c6be9b0c910",
          "32674186f44e212ebd0dffbd6a980d294018a6ca4b68db8127676fe32daae634",
          "4fbcebff6f7afb3026fdeb1c04db15cfbfe7c0d0c8b03f47260126307972ce05",
          "bcd35a6e169ad4133b3b33a4611dc54f75e041736c13ec9e5a2b575e37781a91",
          "ea55cc189108cff9d6a0b726d17ef92f3ecb0d718a887897f892d550e2e2fec3",
          "56c9fbaf0ab28ab465d9c90b67bc3a7e3ff0bc7ba5c96c5e35b6886be6d8282f",
          "2cc5202b39f8e2f1143e8b45177015f1f876c9aff71ff35c9491b30f4cff5556",
          "5a498bae732dd1062b6c4e12cbc1e49a2900e0c110d395ac4626818025411bd2",
          "58a6fbeb31931f1f963299fd50588ce549725784976b3c3a6ae8a2c43ed3b80e",
          "ed15395b3a753b616c29550276eaf0d4d1092afe63c1502fab6abd1c9ec3e057",
          "09b84bb88b801bb61e8269b684eef91968fdc8dc23f530490dbe855f4350d52a",
          "ef54b06d99f949811c7e6a59a2e84608fe01b1a928d39c6a8901243e652d4a65",
          "176f7438d182872895e824441156fbdc52c45193e8f93ee50452dd0d9d28cf28",
          "fea8c17cd5c0e7a081bd1b83327d469b69540aa6395f93db343bc1b67748b09f",
          "2ca5ab9a232afee6bf2ec8049c45637bc904d30bef2a4ad1fb22ce9998fb7618",
          "f1e5da859bff4e4210b969b39757e2818db90d6147ab721d4ba3939994b781d6",
          "58195cab6cc62ae4aed673e9f036fa337a713fd8919043d45c5df232a1b46f2e",
          "218a3f795d3dd58fedf9a758bfef5fcba6ae82bebe68a9e431295740f379d986",
          "dec80309f7b466effbdf046004b09e51fa26f8c4c4a83fdd2fd3163c6eb0fceb",
          "9ce04c28eb0fa0853428aecea1033ea62096dac5d19452d1dcf8267e5e002e2e",
          "ec1ec3b1c799c808090200fe441b772622cf9359a80a2bfc87b3ae23c039ad84",
          "4734177d7947dc0d83d18878eb12b5bdd93ffdf007158d780818ed2c4425ae42",
          "4b765acd274dc8e647923336c30780ebaef4b9f89051f9a4bc970947ef8188a7",
          "6163e480eee4951da1656b575093f1015b832d23ee888d49ef9219cf1649639c",
          "775e08effa60744ac9d1f94e4935ce708d71f1846b1517cbc7b92537f3fceac4",
          "a8b867dd57bca79e8205ddf0271340a38a3d407320ad200768b19f1f01ac7681",
          "0ada788837674c6f54f1638e58d4c9b9e5ba7bc4ccbf6238c5222d6c5b7fde3e",
          "a2f554fa56ef467687f0637ae82a5da6a0afebe3d235c091cb762b2bbc5f57c0",
          "ae32229b1a6fd41adab5ccdb1c60d38c843ac03742ea3eeb0b2cb2b5ac5cb105",
          "182efffc369458f52d5ecab22b7e9671d246f53c29baa7f91159c76135d009ef",
          "4e581cbcb93d4fec5c655443303dd66fe092a72b559411b44e6e1d72b3a29efe",
          "3ce143c6ee52668a7dad2f5634f2f6325e47014a82e17113790ec95f83a97e9a",
          "a05add60cb2dec8ee915dee603eb4ae51aa548cd5b6ad02a6355517448a7b4e6",
          "7e706dc5a0a5ee80a9a58b0ea56838bb4bef378e6a0179d2f43f0323f831e307",
          "5bc5d141a5bcf2318c569ebf99dd82b49d29042d315ec17cb4ae28f671a8e5c7",
          "83703cc768173593cb9c5a1c7a7d00596f3d783082e3266024ef6bfa0917b382",
          "373025654e07d111b1d1f723f66d4162a134b60a1991bff51981adddea2670ed",
          "022641a949ad38dbb334e7cb58d03518928244c93ecf2d8a9189f7eb9ac2d94a",
          "00f2fd460d4c9e23709b86784e9092fe21338836c65b1fc0bcea2d90f06fcf61"
       >>,
       "200369d989859a9b74211d1b577eebdf6ca34a2c15f878f0e4b4dd78c430e40db21/01/2018{\"amount\":24}",
       1,
       <<
          "90e0ea8627b609eda17e46828fb18226d800786d3fe09d359cdeb40118f1def8",
          "fa3c3dd72188f98b298365aef00646bab595e306d94c079e47a64e207ea09b7a",
          "3936add943b60555239867fc798e07f162b91947ee5e061ee78755732260a6a5",
          "e024388c577bfa90e324cc38477ca834999bd0d8cc0a032567f36777dc67eb52",
          "7270f9018976d42e9d1f4712e18c86e8c064ba61cd0ac4d9467e8376f647c4c8",
          "75596d38435a54bef9261fbd5fbf326c58a4073c892b83f0caff0944046487b5",
          "a4631671fed1f187c4dd3d854058fbdfd74cd9b4dc0f482b08eba7bad3d0f932",
          "70a3516bd5b66bab0980c7c914bd443f5e980c10cbfe129a4146ead503770b0b",
          "5badff53c98672ba29da2a725fb9a5af04f4508eac7e98bdefbb97e403562390",
          "4a8696e7312e432c61d1e7ebc7daca984468c42a3f80b960fa58a44912329bb3",
          "eeee4946e74c34c3d9f4c185d598d9eaf5a015faca09f90d153267b94810ae29",
          "b8cc274c1540499b0911ff294cc8ae8356eea75779b2eb0ed1e0b5065b419ef5",
          "a6f12587435b5552fa4406d4b09115b4cd86df7a4c155efa0ebd84748f3b9e88",
          "f8cafd027b52d2c7f001d48e4538b0aa542d211039fe8c9b022b58d84196a0aa",
          "4759c6d15b0b56f68c0ed7c997230de636a3ae22aa5713af2724880dfc21f913",
          "19a7f91750b2e24aa0a571fd7ba8293948adfaf56a4f543fa6ba0cd1577edf9f",
          "e785cd2fcf804d6aa970cb2a6bbb1a6c64800692b1bd366690fb057445481b0d",
          "06a2d3fdb5304a26f5ba5f675336fdbff0e1c39aed660bf7993bd6219609fe12",
          "051262ad3e8a7b854f050e3421006e9c7f213e5c0989617942c4d51c8943fde3",
          "b9ecfc733a9c518950d4dd79d1f1622f5212789785773b58be422bd87c406e6e",
          "f2c07f4a62b07260e2df0186c1bb47d7861602e3879057ff3c743dd40d897614",
          "8b74c024469ad6349fc2a00f9e8bac6312a45c754e7be17f235dda00e9cbacd3",
          "f236970054147d237d63278790a413c809165cdeff91625f96ceae352377fb12",
          "3649b442ee657c16bc0a39498a2add725ae42d287ac55f424579137df31cc352",
          "f6c53e616bf3a0fe0ec8dc556f863c7abfc66eb113e147cbf4ecdc6c36d1710a",
          "df9c9ff54841b07dc8d9afc509c4139d93af62bb0761dab7d491c9f35faeb633",
          "8872b89e8a80b884601865c791311a7f5f7ded6b55d300f720cb5115afff08a1",
          "f3977b2cf48090b877b427de567043e383571c37f61002ffa63df4bea695938a",
          "e955d2f589ca16596f4fc2d7e24086c9bfe51ac3d086b6076c6acd1b8b3819c8",
          "ba9f55a3fc6d664a9d0a90d719e84d6e5d7bc1502ccdfda51ab8a5fde86275e8",
          "093d1a25211738d9f4c2b240b233b1a29c679fc5240dd895246a98aa026b4176",
          "221a5da15f92b0a0bbb9a723cc2695b63726741de92297e273a6b0025c9d0b18",
          "3e813e52570e861ab40b7a7896d415eabf7dff1da9be11e26d776408b3fb1348",
          "f023db3d696e4c3fe68f799b9984aaddda7ddfb2f881e693eb99f8f20dde276e",
          "0d94c868e892b8e721dc7edc4ff4e15d5bc1afd170ef7e5caa13deebd87777b1",
          "afda8cdcfd352bd3c79276bd1b15c0e616484d94b4ac8fe4929645c698c6294f",
          "177c138ea74f263dc95dde5081940317618489d66963035218cfa40328ad8d0f",
          "97debad0eb1de2c95fb6dcf875933a0248aa467d0630a15b6522ca088c2d91f1",
          "fecb0f8c33a83c728b447954299726230ee81d1e4ae52790d19cc34e12cfeab0",
          "4b9eea4667ea1915222c7f2c80d615f49de8e6575a45b3f0baee46b5473650e6",
          "52bce4b3f66b2e3ac368f63db43c74c21eb6229fb8e6e5483c1c21a57affbf9d",
          "19b23cb2f2cff51a69cb33ff49428a28a7477a03fa28be5a839773d492528902",
          "f46b8753a0af25226d4d1e0e6b00ee5bb2e9beee251515bff786c033fb180305",
          "70e5770212a965fc837816955d453cc1c07ecba0a5f8af2ed069848b67646d23",
          "849ac663616e17ad72df735a15d5c00a8c282bfe599a74db53019ef3c75d3844",
          "6f491070a18b38c659c9cf71ca8597380b82b99b1443673c32be28865abaaa45",
          "51011b1a21790d67754335a14a1a80fd782dccb3030fa4019863e391d3435a16",
          "726cd7e1fa83eaf50432a8cfab8cf33dd6facab11fd1f16756b2b4dbfc03cd74",
          "df6ef702cee6b48f4a2247881d4baad75f4b1870bf4676dffae236e8ebf125cb",
          "2a4ce0de333ee1b606fc4c40d5f726f77adc48c9224852d2fd145ff7cfbda933",
          "1ec386cb4c193a2135158bb5548992b37c6014a047b50a807524f55a0698fb21",
          "1eccde2a8dec90a9d11a69dde7c94b840caf353380322581537a5b2c32b9b209",
          "107f9da7cd1cb982b34c3919098de45cc8872b95ac205bca46c972811dae252e",
          "e0fee55197953d2b09b9fb40a55c7b74b9ca6b24530577855fc3a1a987ea387d",
          "1c51bc60fe63d2a7b3dadf0ea7f98b060627826d47a73778ecceb3f2ffcec00c",
          "d0bd14433c4c2da238e4137d1d42afcc1af178e1d2e0e9b1ec179609804269e4",
          "88a9ad4e1d197fdee4015a2a34554ed5e7008a86e8961316ceed5d81f6f7ac08",
          "aa3b431fe6636878816c487c8da32c28aaccf9d3fa7e501f676bd575df21dcfe",
          "fd3ec7888d85033c04011f2ec5332b0ec85725c6313ec9db5da730bfeadc85a8",
          "00413344a4cedc422d3771e2ef4861591500aab806313b2d28ca498eb631b991"
       >>,
       "200517c7e929bc3b397f3936466e6b7074e6305638c9d52812156240c0167a03121/01/2018{\"amount\":24}",
       1,
       <<
          "c35de0fafdad91edbff2564634a93dea518e231fbc320d2f028fa346a21163ee",
          "df6669d849287bc8b019a16db0abab85f468a371964e11c3ed66a3277716da2b",
          "c0aba5dd6147e22fe4358f95efee3c6fbdabf992e3f002ad1b1db1ffc0d0dddd",
          "8c650a055f36fde37260f717972add60a3c76f4e19666ca48fc678451029bfe1",
          "ef512f1e3aceef4d0f56c349e3d7ce1723882487373cae1dd692b99593ee4726",
          "550f38c212f5cb8d603283ee45603ca2847be51f4962c1b000bcceb7d444d067",
          "7536a9986194fae679c3d380923d5a584aac9ab00a404568f4cc44bfbcf16778",
          "725c5156614a76adce3ad8e2d754286cf43b4469a3699fe30ca3b8fc80986656",
          "13864e97dd29ed2dd911219e3a3f05cf7918bb394397b723feeea024e3378211",
          "580ba93b9d258651d6345436405bb85611e227494dc74b05a553e4b22b7035d5",
          "f96a24a7c8a54106f196e80bc827e7bc8710b9196a6c2ab7b2477d2dcfc09484",
          "8cbb69445fd3185a28b0b28db5cd40e11d971735aa325b012fd9de107a7c21e3",
          "61cb8d7f268dd1ded173830fa6786a616d46e87d01704671c79f7572037ed22b",
          "c8850dbab031713a20425c711a4bfa22cc4f63433bfe02d9728ada7a897b5301",
          "d329bb8d3873e8e7fc032f87560ba7d8c9bd8305a8a0ab46190857dd9fcf9941",
          "d0296d766c3b7830d144d88b0fa5fa9d34d6cab40af4a71c2adf60099ca524df",
          "cbeb2d1cc3c7b63885ee10edbb1e3806f4c198512f6aaf37352f8f8b71f962ef",
          "89e6102f26efa0463004a563cb5922ce10727945d10f56608425e39ed228091b",
          "0471d6a125413a74d77b76e75382f0a62ba62b5bd3769e41919a9a56e18f507e",
          "806d13eee7f2f3e7eea7b0cdf9a592c866d816a8145f7ae8e27c3562cacfe002",
          "2ea4f231eb7755c1f77b386f8236160b6f0e6258df5e66b53feeef12a6a3aa30",
          "7d296b4f2d2fc45fdc4c6539a3c17b3d0863bf9610b1529f351be39233b6b02a",
          "0382125364fa86a86da9ac126b7c65da6bafc3e54fb69f423dd81fdf83031dd8",
          "9963e69141fc03d40b3419094a8e17fbfdd95ab261065a25aba10ab378126e3c",
          "3253b51ffddb392b1d7baee1457a2b8282659fa8b3d9b4c2db4591e61338e5e6",
          "7f1b8bcc6cc65eca478e56439c5b3cb47aafce5a7a756829646cd0866fea0414",
          "f5ff4d2b82031c7dc4c549db1fd655814d93161c6d1a68b42a699d25cc2bc32e",
          "e2fd69153fca0ad5f018416cc0c2951d7e52eac4a364f15c27677d5ddd718231",
          "53a4cf321e30dbdcd63bec63a4954235c51e524fcfa7b89c18f793b7f561da02",
          "7068d077d099f4865ec93552d96f39ff94d1f4a6a49a1ceff5bc05d4d9a06c52",
          "07d525fe3deced24f512f18fe1c677dd19bc58e3e301f16eebed58b46ef7c532",
          "d5d5ac182f69006859caf037e62a5eba2562293a8650ebe3b2aab483aaac3689",
          "7ec0b347ba7ac7801b69e8f9351652f130a43d1bc5a037a954eddf01d759da15",
          "5213ffa2092c218898aca9c8fcf23fe1b5ae0b6ce80def82c576403b275ab4c5",
          "534639c543a47cc311f1d54cf154377966ee51c76eef70fad3864a0858b0ec1b",
          "a1b0895c05172c909feb178cdbc05151ee2d695a0d3b8e451e44f78b11e1ce94",
          "87100f39fa54dabbaf4934b7d75220565af873d5204f6338c135cd0f1fc8afc6",
          "214b3bf40bdb8ac388b137e2d07f3f347d21472300ad6bf0eab18a6fa303329d",
          "639dae32d8e1800724e6b977d0253ac087d603ba8860ad17abd1bfa20c464063",
          "7c97f9c765ba96596d414fd3251dcd69c6bcdb570177a2032bfc6727aecf3f22",
          "80c9d65aafccc3bf51e1d34c6934e5b41175f5433d6fd1414d48c9aea16ae8f6",
          "724edf2e7f69937b7fafb5083141769f7e782c6accd611f78ed59d4f14d32033",
          "818f51c26a636b6227dd88c7c0c447fa25a008d30445caea1eb0c6f8143d314a",
          "a84fc47034c09ca23c27c72813fd5a8f61583383c55410a3355f57e87743662f",
          "3a3f58cc2fba93ce8ac61b5feec6050d617eb890beabd700eb44c18ffdb8145b",
          "6611892e9f641c6220db2c77275f6d780e97607882ffd524aea5d9b832a35a86",
          "b58525e54debd9ff3807e3e5bc97469f675fc618a690e13887d6f666ebc884f2",
          "6f1beae13f249f1d0ef1d29037e3157a19c505d6902947858c369f756a849929",
          "36f490c37a6572accb26b8af0f364a131a4a5253399acf750c294c4fbbda640e",
          "d3bbb12f587dd5c319c2ea767ef4bf3502713e16266e78d557389bb9b4c95c0c",
          "332ca6f62817986bbdb3d3cc677a5e47ca7c37c68eea0227c475f3ce7640f1ce",
          "7364f457a69b98371860d54e97927cb909f10cb63ab7cd415b33d6731b21805d",
          "18d9502b07c02175991c096caf9c25a8848dfcaf7f56e2edd8276dd0d64c77ac",
          "4fb179ae48695e950d8db579332c21f5961928f1a68001e4e35c1afc24b9aad0",
          "d9b5a56bd010a457669eed48b648d70bc714aca4729edc3fe5e6e9ae0b9b1869",
          "1e3593c878abd5705ace659c75510f9fd610e2150f31ecdb0e43092ebc3f35e6",
          "ffc5b85d5daedfdc1125420ed7d606caf93a8f3363f083cfa7fc8975a7d3ad82",
          "a2eddf28854d804b3043e2d562bbd9faedb3b29cfb14fdb0384af6aec49d31ca",
          "744c89fd2add991ede04a4620e74a72abb6b40cab021a33dbc734d9c97e579b6",
          "ab40c4f54c0ee9ce103db814421f0690246ab950b80d4863f4b282f8cddd6391",
          "a432f050f3e28f8bda9a3bc6bd314bd30c3f286d3c0c7563091119055ea36121",
          "adae4fcaea9fe9b846664e0b7bfb61a771dd0e90ec08fd35d0471be5926fb6d0",
          "4985eb57038a46f1cfcf79351beed48960acd91826abb3046e6ee934744347b4",
          "153845d1bad4e278bdd213cc2c2735af28c73a8e0c4ee944fc9952ccdba80df0",
          "41572a5cebcd65f96eb6c7752bd5daddc526de0c0544cc75e922d0e2fdadb1f1",
          "e799153cd6c8b861467acbc4eff6e71ae5a176ff089681d0d42d4c1db9c5c5ca",
          "5b7145d59cb7b9c701e9a820dca2ce6cb203f6067e5fc1d99c97c3ce4bd30e09",
          "179aa13378f95394c1d337cf72284d03c1ae2d52214c43919ef73296e9e1edc5",
          "a5214633505331f6784c98a6c930172bbd47b1092bb58fb3eba9cf11ff7f5a38",
          "3993278744cd306f4b9d6e865fc3d2416fae4986adbdf7b3442c5a35d8f069bd",
          "5e0c00477738d7373e2f8613d8795c22927d866f194e25f59872a859dc62bc4e",
          "5e90f2c9778e8217d4adfc3f0c4be66afb9a9028a01d3e65e794f813c2226078",
          "309a1673b6bf7a7d3fe5f6c0e0b8c901639dc3ed75123d7d245464333e79ca53",
          "253cab24b3b51dd7e19e9d4ddfab50b92ed26c2f1f3a00d279b94d16bd56b195",
          "c3b56f71208b33d3ecd44732768e8b4ed97c3f608546352cc45e5f447daf9e0e",
          "12c69b6fdd92fd010d75a8fde8995447c761f0386c88e3290334272b2049a6be",
          "d7c29e3c7cfc971b8aa08beb172ee3eeeb89227c11ecd22e9fd9a18e47c4a453",
          "e60a41f44214cd3b3c9d5c261d34b9bfb90b0a3c435a363cb5a4f85b9d180615",
          "c94dbdc2831d620be81cea615c813e1f45b6a59c7e0ce000dd078149a18f9f80",
          "740f3fb3644d114a01fa769ba7928fec0f30afbce5196a211c72f2d996d3c80e",
          "b5934151189bf2501fd0bf02e5ee384f67672161b7cff3c992fb124dcb2d315b",
          "03dbfa6a81b0937e171152aa1c756dff83dc1d7a8ba033cb2200934d6c33ad32",
          "62d26945d714860763777d005d46d4c1d12ed23b2ae087ebd445fb2b4eecbc64",
          "65924077860d039d5c146d213069b32158ac2d607ae974a0ddb62e665c9d3606",
          "277e382f1140a1a4f66d95fd95a9824e48f216dae2cd0d0db5274a9007a76b53",
          "542318f8694dd55dfaeddfe745366151b8f7e340fd8bfc7531f4c4879d5f510b",
          "2c3b8d75f4ba8b9f1c3ce1deb2d43c8225b8b769d0898f086aaf8c7efc08d063",
          "f1df6effd4a9c1aa45fab671d5674f3fb92f37332157b59f6bf7e94a0fcc013a",
          "1bdd7d656c4b2fe2455cf45e9360edae3ea2ce644426006ba80e04663c85bb4e",
          "156bab3331373fa07725197c64006740094f60a65e1ceb7baec6fc711be32eb3",
          "b87d0e77dd34a02f9a44148b21c8e193a147d47385f62e223e60f792e15dc324",
          "b92c35ce0679103d56ab65d160430789be4b258fec9bdccbfb5c8629ff918bb1",
          "5d400127e8dd5a2f4de9595591b57bdd577ddd7f7c9347c8792ce0ab40ed0f91",
          "88cebc3011af8676039455614778a69ca9071ad4a6a1e603582d31d8ae2fcde3",
          "06b4d9b8cedc9d8d752e9305e953d7c6d13ea4a14eabe5bda215bf70b6618b18",
          "c00c40f4a1805aaa718bf69de8371168e176c7fb32340cb190bfa78f114663d3",
          "e8ba072489f836e83589174c49ab9026633fc9273d3c4f235aa7a6e78b23393f",
          "e3269b50f513059d8a7ed6931f3a521a2c6c2852fd6dad22e2b5043992090a44",
          "c933d8df9304f982916063b5b910b152363d0d5dde8ddd5be656391ea5996286",
          "e75eda2f5561fed2607c9ae6bc1e12e74e65389eb451daaa4d42e1f007603033",
          "70296126a988e5457b1bd8a07e8301e478316a721d2d283e24adb82e2a523949",
          "a254d3a058b85ab4e90a3f6d0bc23deb863ae796f14abe7572f4237bb91f505d",
          "04fe4d4a18a0677254552b897fde27f872758b1b13b9d2cb77e8781b1c1f8b35",
          "e51d7f005a858f8ada852074e4ed75a30b92a17ec4877b3290d6a5a318daa9e3",
          "4c267242f02b51a74c8c953de8613c815cc8c411a8b5f776dbaa39fc0e4e0807",
          "db19430c77507d1c7fab8127805dc6cc351656db072f9083c3f8e85fdf128643",
          "db2b1b24feae633cca0f882f805896356ade6175f7a4a9eaf8cb2136bc0f3195",
          "9493785bf97a39eca0bf0deaa3a25b7c0f800781f265e48880d2939a418dd535",
          "9c63d073f6cbb003d0552be0bb3677a95cba70e77b0f0ed30718ef1df05e2e75",
          "8cf051d2e63c4dab838d85bc94be6522e9c55c3440179d6fbda496fa01e0ed67",
          "eee9c8e75e3071fc49786e1dbea1980f27704c3b96c7ab4fba4cb3960ae867db",
          "b8a01de949b066a71d23ec50e725612786be14ba2398c5495a8e7bec3784c5cf",
          "ced8c94256ab9b4c0917a6065ad788de8de1be0592cb7a1806fb383a982843bf",
          "8fa53fd2bd2024bfd74b4e17926a0c55a8d41a7cf23e04672a91fde06b644669",
          "95038df95b3a9bdb1f628786be69de6a0ad6c66ede32544b59dbef7c0d82b81a",
          "c56b1782730f40649ed3b332acbb8839d85bd5bc056824b70068c7758b258fc4",
          "99db587c3710c83dcacd506a6a8cd2ff1e1f27992946583358df4346020e0b93",
          "c103b11259c4628fb14b2285d8cdffa04205db83809848fd77847ee8a879fd13",
          "30b23d1f3919cb2414a37d3990c4cc49ecd0016652ea23466732396afce7a182",
          "337795071522db71459f3925c0c2ea6a20163569e67f4456407007fef7361c71",
          "9ec96e4b0702860f635ae81d1099723ed02c009bde69097a99f775c72ffea6c4",
          "26a2a96e47efa9b922065e69c14cb6f3bae29979b249e56d587614c2acc6475f",
          "aa512efc86374e7c743c15b3fd8c8ddadfb770c2a0756b2117e91bcf960444ac",
          "448c7b02ca7a52aa482db163313cc38c340377a773a344614378d2647e7e44a2",
          "996667d73a6ff870a780bd0562e70ba9528101a5ea142c0bea3eabe6f5d9706c",
          "faef76b904b7f2d5b9d15c636288872a23a382900c99f994ebcc72dbaa517c7f",
          "47b7f49476c3b990dd97b938249878cb59899b31eebe2bd321b3adc207f5421d",
          "c224bbaacaffee7677829dcc81360bb8dae6e9faae203ae93987c73447beed06",
          "9496b617fb6ccf16591cf10b8dbf2edfa1175ebc8685a0ffddaddbfae42e11cc",
          "3e3faed998a39c16a4df2b6331a35170e8b9777579fa40159e1abf3e06bd57cb",
          "b3d0a38637b3cc5c267357b4de7f8abb70c7b45e2809c6b8c6bf40c4ada1c24f",
          "1c70af381d5056fab101d9fe328caaa999e266af814197ee728798abcd44cadd",
          "e157616a8efca1e03cc4a47a0b729151dc3f2a9d8cd4ec3d3e9c8aaf420e1cd1",
          "39482c47093ad8764a5a6a3b255768d1650134c9c40b4a76b3e5815c525c0ff0",
          "1ce8e696bb896a947cb1ff3446d95c9b07e30d223434ebdcf18302504d9a63b7",
          "f3fff3a835c88e5555364484aba933e2d9c2ff8ca95008ade214c8648b09f098",
          "71b02c734a8cf32e8bac96c17c09bc35fcc92a8dfe9fc5783ce14f251b984b4e",
          "3d54b6bbc1768d98563e52abe2338b59004913d452e9b4f3386c1f9b5706f89f",
          "f58ed65795ffdb0152085c3a605da2ff9338fd0a5edcf7fd2123bdee83792148",
          "ed2f0b33817e1890a027fadf3b7891fed9a337553181a051b2292ef740381abb",
          "573ce9afed592f776a3ff987761c588390f39c3b04705134514488c8194af834",
          "530e7f36273dac9b4ba0da4ff471720a0b091d927fddedde5bc85aa6518e4b76",
          "a4866526d84cc2acd67ce3a3f3eac3c72b70232de35cc472150d78de212d6dec",
          "465724d7ce936777c9f8ede5acabc516701d6f1fe721662650af8bf5fa7fbb0b",
          "449c962e9fa133f169f37f1cd80b9ea08d4b9140bdea64b755c12467ffdce06f",
          "8397e0f894f7c8254de4238cb4ffb9feb2534e1e5e803cfe4dd90cb61b1ad52f",
          "693a7bde68ebd09e68c7262a9f3b6b478a349629a3833bee3374168c98dbe025",
          "34e0acb5e8349231facc51f4f221d4fb48711803dcb232df08213b38d5bc5c1f",
          "55a08094a3208562262cba12a5b08764d0e12119bda925086fb5e525b97ab7de",
          "e21ffe3406c61c27907145eeb09ee4dd3b72f5f79b8e4b5068fadd332ead1f9d",
          "36806c0ee4233429016066825c9b3c2a8f46d678667c85760f2b486687cc1d49",
          "8f925f0c0a1eddb07d577bec14e37730b2956a58f92909f8afdbe95fbe5275bd",
          "9f5fdd2a2146ff26e97b02592ac7fe8e5aa7a6e8e09e3ab6be4caaee316744d4",
          "85eda2164b63508f7866a37a01b163c8c8021cd916e3a02136e00274f826c4e9",
          "c84663a7bc32dc678aa4ea255e627f5547d29f6280fdd5c774a9f9dfdbd46fd2",
          "f07dd48379115b730ea6e804bd3ff7c5f97ded6a5f901b7fb532feb569efe5c7",
          "f975e367a605013252acee788f60bd7e49a2a5a62aa0b858ad8e6456cd4f5af3",
          "d22c09f30996e9b7857fe1681fa6dfdf9e1710167c8dbdc6d3e9dd2a9a0f8643",
          "a8429702244223cbf5b152352351383b0119e5aed589e03a1889ae3a377b1f31",
          "7c20e79ebfd150519aae2c9138400b359d8d3fe84d0ce9d3bec2db1f9a07eb94",
          "c6d6ea47fcaf03ce962729752d211895807fc2805439fc3954e54620ecf3006c",
          "1ded9626bfe932c40a2aecbc495bd039a99c0fe51be66b5fcdcc9629db0854d8",
          "77d317810c18f414cdd272075a696d5ae33a96b87c1584d0fd0a161d73f0bdbe",
          "9f9e4ba79a28fbfb8d84d58b201cefdd25514ba290182eb755b3780fcb973800",
          "8d8d231ee9049d6865bebbc330a74596f7108a736ba617d1f7ee02ff9c175b39",
          "a652f37230b2e98c920db143a8260ba20732de89ab0268edbce94be79b5bcb90",
          "76f75f8ba7cfd23d1fa72c5fbdc0ca5aa4bfcd7a81091bb25a20f4132f1ae84c",
          "1317ec50336e123b0771dee4ea419b4d6efa2fc98c167e2bb24e43ab2565503c",
          "19f054e204e2ce99b9e6ba6035766d48781887d3705123b1469d107dee422b7c",
          "e26ecebaa6aa2eb098e4de4a1c3e13d1b870bbe68067cd01bdae3b7cfaa33233",
          "2c3412ec0a6db8c3f97d48ef56d2b0a5c22e6dc4c5016871e9d520c79c13e44f",
          "b3356e81a99a92f75c9f3345eaa754dc2081a3c282a572b509a3a7f07da52010",
          "10e2dd25a14a6073ab771f4d3361cacdca139c885cddb527e675554a4dec7844",
          "28e2a1bd6f05bc1d22ae56b9ccb42ab494cc65c620aa21e332a0437c2f5daded",
          "b41d1f948fd82d6096947c0313f022aea4edfbce0c9633e0957ed95aed5bf324",
          "dab5ec959aacf9ab6f860717fc78d1b9612e9f65f2ba281946d4b89516257463",
          "3f8d10f70e5e4ea00161db3d1819bf34841f6450262feacff1808864285a1609",
          "720ffcff5d4c6dcd2b6a036a3c8538867beb4ff859a9485bcb5e0c770e60dbc5",
          "ecb993ad5ed3d8d13d20d5c9b7e9e7ead312de52b8bbe7e9a6e5bb3e25bca37c",
          "2f720ef3004ecadcef1eeab4a0e04680f24752af80748f9487c67875b5149276",
          "299f036e2ff260a8cd032b0effd3f4d4eb2d2f780aee8ef4fb3270d09112cc73",
          "46a3d823f7143e9f8148786a6e689d05ae64f7a2722260e154f06f6ec37b759d",
          "f353032032b8ebc1b90d8ffbeb1a7fadb60c05c224ba77638f0ad83c676cf2b4",
          "4f777c40cbb8247868685157906757c99310bfab0fdb0e7e2fa5d2b7f982523f",
          "d41f812f6d9bb75e1714441391225de8f9e72d33e9b15a06cfd97e386ae5535b",
          "3c5d91b651dbda0b43a3404ac7cad882254140de61351773d36a56e0da6380fc",
          "fab3e76752d938e11fcd6196c29c2bcc7cb1a69a127772a33305a2cffb2fc893",
          "eee98e312bdd54f47264c74909c893fbdcfb2ebef6ce64e2f0673a6842395f22",
          "e975f0fbb3a79a4974fbb04275bb8ced5b3a2ecd59399f38c3651d157fbddf74",
          "c24ec39e75e3cb92f145648068d82059ff93b59e9a78d67d3a98395eba3411c1",
          "cbb599f79e324eb2e9b8c21b29c6a9c459bbbc4dafe7a81a7b789f46012b72b0",
          "61165925903a96311d18fc16c6fbf192090fecbabd44eaab51f6a1e450d172c0",
          "837c3ffa435ba1319c27535d0417c181c47a62bbb543127cc803171d8850b49c",
          "623dbf47f97771f46df7c23f62eb7b56086b8a3ecb6f1138a38bacde4f3cfd27",
          "85271db7b6ea294c93f4c20cbfe28134953168754b756c77c1143383dd1f259a",
          "d7bc345e9f6cf6064679af894a27747f1d24c53c1edaf1d17f8c8e76de91a1cd",
          "60bbf90daa04a9c31cc1b7e8d3bfc29549da4fe9413afae846507f06b903d41a",
          "ce3b3b361a226da7a699aca7f5b29bf1ec22fe55db3bc90f5fec648f7c7c063c",
          "57d521cfe8dfce5961ff1736bfb36a631bc6db54aeb0623d0012ee931acd5d89",
          "81226bd31b2b9bc4af7f9a5470726978670aa8e0541f347f6b05b51c5e4e5289",
          "e7a435db922a0a3554dc4ca8992dec3e8948e40ee268eaf4a079133ffe518a3f",
          "294e9233a8c7338ffad2bccc724e6f4b0034257d2e2b20044532b8959c7c604d",
          "0e0d578c05afc6100d62a8d8398f0c9110a934995799714dd4d8e94437489830",
          "6b20f69e6cbc5bdf8c7b7e305c18ed6244354b9edd6194149f72842bf7f7a114",
          "c5e842abe9b34fbb482011f17c4a23b42deeb70ba691828aae1f1925bbb2cc0e",
          "1fc42f32dbd7340a5079008fae2ed1d0fbbbf50fa18205ed8dc39d764c4d998a",
          "d8b0cff2edded4e9572b4939649857109ffb0cd14adae18ac6c5f04cc7423de4",
          "e1bfe9469803f8b084e53dab1131fa69e756739bccb4d02724cf7951189aa046",
          "4f6e3e0641ff717205e405873993edff8fc05c44c2f75b374d5c91fa91c51775",
          "3c20b81e60c7b5b6f525f17ae2fa07e46c113128b88dcd1cb323e489d93de8dd",
          "e83e7c70a5f3d8370ce26ea632f870dc19b8c93ff12c0ae52bf8e01cfcedf4f3",
          "073c1868a8148e9713c9d3051163f647d2f819ccc2b914d2636ca646306fd078",
          "86ba0600a621d8e67764edaae47b4a0752fbf788d0354d5cf8e9e304e6da241f",
          "7e7acbce3a2ec5666abc7df3234e398deb05a292454e03f9ed4c9442b43439af",
          "413457a3b5501b62bfbb8d9793165f66f6ed1af765d865a17adbeab2419964d5",
          "8e2a1fdd232f5cd67c2d0c2417d636e19eeb02e3c0333ee51ced5c597b5f009b",
          "d2c39810c17c753db0b0c02aa1738df880a3cb3ca34a93710117b68ea143e941",
          "fd09ed0c5c578b707628401ba0ae42e3dd3a9f506cf7b3926ffec1c13c1b65b1",
          "1a349776282f5a720896fd2c67b7db51d7c089fabe967b9eb337d34009be3a0a",
          "c52039eadd96670f793cad2b61ebe8f09cbebd1524928caacadeb114f1fbf2c0",
          "48c1de6259090208c76f28c95b2720ca4bde1adc1d8b5ae702f860c6c131e80d",
          "69efa843299e9d9fa714ca4e6eb84ec07f1d725e6d3339dc3c35c05aae2cd33e",
          "169415584a834bd9e8e24b1ff11a092aad5756861a73854e0a87b74fd44afdd1",
          "fca286d33de686c067618e7951a3efc30b9e9f866dfa60c9161e7391abe8002e",
          "ba7032b733f1a784e1bd758ed2e853f526e62904a46b0a3fb05fffaf3b9dd495",
          "fa586a58f75cea407b722e8484618d0a455ba31fce39aa5de811558f255d6eba",
          "7a002397d291002218c3763e8845ff43c2deda79babef079b3ad2e33a5661486",
          "c464af7169c44d54b48de207825792ad570c3b92c66f8a6b775a8c866312cb1a",
          "16b42cb69d91d10cfebb6e3804ac0f2fba72c63e5345be79ed3bb671e7cc5b67",
          "8fc4b6a6cf01335ddc33567843aee6c4cfd7f7b7f7b33d2b9fde79f13701476c",
          "ee9088223ce53fc244cefb060f3c66059e2c3e81281a7e351364e25db03ea294",
          "9963ad29a959dd878a5a0b0cb12763eecc09e0fc2fb8047b0996f0cf2d3014e3",
          "097ebccd9716b11a8ab2e17172c4af4b9ed5b121b20704b764fcd1ee840e9e98",
          "0ff18e7b57360097e655daf03403bc00b106ef3ac2389767474d186fc5671ab0",
          "1d856df571ba981ce09515e036013282344ca7e4003632abaae7cadcfaed840f",
          "1840aabdb2089f78ffe13ce7d985768523586c92fb34247b67466b01ef11d5d9",
          "cb87d2c53acef51f007fac29249165efc795f3a57cfa4d4fe346a40308171911",
          "91cf7a96ab064ec4c40b74e810e647ec3ef3cf449e494f4bcdb60935e0d51d36",
          "fd8da20a1aa491ff29b90094206ee5e7b2719977a1b73d1b2255db58a9cf3212",
          "97ff1d2aded0e8d20f4e52f3c17dd09ebb24f95d0718f850b0da04b36807a036",
          "ef1f5b78d0dc7f6431fb06bb815389c26f32122ed60fa35ad1dda2ae0f32e6ee",
          "d741451de93e3dc8b0f4da20a6b8ae43370ddf0ceab21ca764a92fc18c734a87",
          "cf20cd556a4caf9d5fcde654d44fc62655e12b3619da539ffc5aa5ea7ba90da4",
          "dd7e91ec42442b011f9dfcf41f8c7b4b5e136d6e579f5a0eb6f9633ac7d2a28a",
          "6d5d5aeb2ab0974d9f04a2c300e808fa326f79469f2e27eaae567b228daf31e3",
          "3b700ff40b77fd33a012f325d2e5066c7cff5c1b6d28bae591429ab03a275b81",
          "2b6ea4a1302933a28a2b7af1758c60149952fc4858ec5737699c178a3f87cc60",
          "3831abc0bd14b2356c2961d2eef8de092cee2a0bbe30187bdcb6184646956644",
          "ddb70e39d11e2c5dab5f136367f4f50d5c3c9d4c8295bbfcc144df6ce21fc2b5",
          "c4c793ec742e96e78c33e5b2844aa77fce74c1c947d4a05c550c2e8f3cb767a1",
          "5d78dd0e2ea1214583aad363257bb5a9d22b89afa4b0d73952926aa4bff09aa9",
          "ef14d25904f1990ad485b400380a64cce8464e36ab012415f383d65f3e46ca29",
          "01e007cab0f22a9941ecafda467599d1fd38b864a74d1edeb03d305071c6b17d",
          "3187ec500cfb44dcf88b3b132858ea5d981742378d7d896e7e9274aa2e583500",
          "4776c32cc8bdb131e93cb9c1a770f12b8550e05fd0aebad59171514172ed0439",
          "7977efd1940e365dfb09c914e4593e0bb664d592f3c3071944bc59207c7376bd",
          "355b9a7e00c2c26a338cf8de140bc3d9e25a20f922721d9613894897823dca96",
          "690bc2eccc98f1030a8c65e3f82d144fdd0b496a8e7ada1e98e0624119c8bfdf",
          "bd92734008d3795dd7b42037579b176efb086ef813c3934fda5d73742cea31c4",
          "4b351c87c89dc28c04b57e4e30b7cbfb2952057990468a328b8d43e4001dd647",
          "ce6eea1322eb6e086de4f1092528fb55a28e9a1bf967b26b2c953fb1388386be",
          "dc9fd549094c999c0515bdd6fe01d004d45b3df69e6e00c4423cd58d24d5fdc0",
          "f4c1757b26a106d265c245387ce97206163c0b5b595117594115b2eeceda5981",
          "40351ec55c8c89d9dda7f0e28dd583d4b237e6d2d67654b8a1aab7c5e2443fd1",
          "9444e3a81db27ad2de19b4228fb176dee5c2eb66c756e0d3e4200ec553df0414",
          "58a0ff0be34f9bffc2413609ae551e281bf4206af2c1b79279ed49cff8e15f4b",
          "9e8e1a7ca9bc7b8b917f556ce6807df4bde029adb168686af07bb9cb00dca2e4",
          "c72bc2376e0ecb96c18fd32726a9008281bacb6c770aeb500576a1a580cb3bb9",
          "c41c6ad57b6067d76f010476262973fb19397069d37d94282e67362071fdb825",
          "3adf59badf970b2b0dd5a89e5ae139ece3807bebf45e5e3630dfc1df43d35331",
          "758145cded9f53b9d94acf0154797472326344660edc95344ecb994419cfadab",
          "3fdfde34298b81eb49d8149a0974c9deb273a0a5f206d191ecd9f4fc5591fbae",
          "1fd6838d4f446d19cd1f545635292e1474b82d8d165f28049023e24b29f1d4b2",
          "07fd6f0b48607e3e05d21bb787d857427e288291ffc64b42d940c3b9b92090fd",
          "7dfc7c1b0c55bd54b0be2afbf69c01ddf5659acda9d71cdd254f2795ad8d22bf",
          "1d8b1bca94969e704240771f00e09ad9cc6998d800f85a0c93677185e5387978",
          "845a24c821d45c33fdcc1fa7563ebcbc9641ffb723ffd03c24747fb69b486621",
          "69ac2671d72620c825a7bf673eb95815c7519b2cf55dead6c86e393f9f16d64b",
          "774de5cdbf9edc9b675f79e3aa8fdb5e7516cc7c3457462b5e8605ad30daa934",
          "e8efda27ff5c38d3b021fa8fb35224c4eed2f62d034dd0644c0f481ff29705ea",
          "91e47904b59193718ab00a134731ad8de71be138eea638c02f39b50c728298c8",
          "124718ce27c10574271f6d47330697b7a4e740b047d622570aeb601fd8bb5fd5",
          "75b45a217da5586b3cc570595a5d0f38c22cf43a095fccdc809d40f119c653e0",
          "d92771ea8860a749aeda296bcabfdef32e41cd57738f44f92c08c357fb415c4c",
          "ea8dcb39b4370af6ec30f4a1bfd48eaa63ac8862c3ccf50e09ef8e5f7a45b689",
          "39dd4a6943db566449eb428e3375014cfc476ba251def56c6e80baa90320c77d",
          "33452bfab65d511fcffcae254738470b5db2cd8deb7da31bf49d1cf01a83dd5f",
          "d37511585facf4d04b5ab0704f2cfbc4f7d88c0b50a0c8ce505968eca273d539",
          "1a88817fbf18463668e62faf93c4b20b037b0a69d1bbc06c6fc1857e63b0b1c0",
          "4cd83e73744d5fb262bcc9a6d12512af5d559be0a7deafcc270c3d78e6c6c534",
          "c537929b9302292d1c1c2b6f3eea965cbc0ce5c054611b0e17e0fd05d49eb7ac",
          "eb2dab014a64f2fa1e52d3ba2cacd6791595fc14b599f09564327b1bf9f77bb8",
          "b35bca66d9621ef6d4f5956a82e1e52c49ab6953fde0fb5f6ce75276f25582ee",
          "a73553cf94fb39fd88f78fafdcd9a16a05361df961abc89e7d83456e8976696d",
          "681a6160b08341958bd898b1250c97f288ea59fa0e01d038b8367888ab40eccc",
          "6faa4a2acf603912ae0273a205a83b1c39b49739104a27f33d078e2af97a4241",
          "eb66012313b54733150b326828b06b5adc4e15324e67dfe3bebe4a0978255d49",
          "ec436ce55cc825940933c0010b6fa3daf6759cec141e5c5c99aebb55f51a5ef8",
          "d37bf7cfe82362671fd80a25d57610322542a53c79bf5ec6b78d8b1eb76109a5",
          "7b29631e57c7ba190af2126d002653d103d6604c1edda491e8dafe9d5d18ebf4",
          "9cacf56ad22736b699fce481e7882fb99c3f468560a14c2c5e23e487756eaef4",
          "a5c781a92e1ab6e261e1cd0407ffb774fae6fa2299433480b5d4fcc491ccf0e0",
          "870cde29a604840b36b4b788ba48259ead1dcd890f266eb5d96dfa8b51de59e9",
          "2317b31a6e549083d6dc6b100972b8171f4e19d0afe6c7510bf488fd372eabbd",
          "827c9b39da94349c6d282fd8d1c6e5e8ccbe6014247bc13907f64a8edcd19909",
          "ac145f32026a77f39e31ac3fe624c6d56b97c65287b0e292ce9931f229f996ec",
          "5d5517b43c91949787bce8fec337ad3f3c53adc7eae9542a071f496e941189b7",
          "c2ec9a5a57a7839111817611b1d50d509ae5b275af1ee9b29c2ff9c435fc962c",
          "6ebc2967a75a4e5d44d4d02dc7bc987a610e13691d09b879dc32bbf31bd89e5e",
          "0248149441ccda58cd7543d564429c72d4ae0a98882e4a02ba4216f8496d0a29",
          "df59ad5d1f708e81e9ccde39e0ca93ddf4895a8179e091130c6dea20e8a76447",
          "a578b4758ae98a865ee84007c182c107216f19b991055247360f75047a1d5f65",
          "e8be3f8a3ff98c3ded8fc5649adef449e7da87229d295581297ecd5c23528adc",
          "0c2c0a29f4654e5f87207a54677f84852a237f0d826e2358cd0843dcbd517b04",
          "1b949f694487a90b881302af12da66d0bce43d16d811d8faa1e66f4c392c31a3",
          "8b78969e238b1948511707bc44adbc9ce8064c268cf181cddf84a7efcd1bdc0c",
          "55a7b39f6947e7dcc77d298eb2e437d82e23ce975bf7b82c4171d979a5106d2e",
          "85b94bba1d42cc9b3907c93b491083b204bb1f4d831bb9d22b5d86bed66737f8",
          "6872056daa0594659d6e91cc72527637ca3a8d262c9b6637fc876639facff42c",
          "52b67f199913841bba1a6e6a58b6e3717ce4825d431d5250df48eab5a73219c7",
          "fd1165d175dd199a476c0c0b51da7918a070b80cd60e006f6c1a138b1c2fca7c",
          "686adcf3043edba8394514d7a196d586ae0f8f508c0478d88433c6056bb6d114",
          "cbcdac8e70cc077934470d45fe28d724d318083d8b8ce59b99579dfe242db959",
          "bba5b3925dca5800cba37cecfed42bd6d9a7961d8476035c791cd7c36ab45d60",
          "efcf87207c5abf7f1cc649f5b038f29e8285b742187df3098e69280e665259b8",
          "1abcf4c54eeb905d909ddf4c2b830b25fc0129644fe0e143b4166012b686c158",
          "0471db0a8188efbee6f826f56f559d64ffb66404c8107611b3bbbdb10c83957a",
          "f0778c77087d66875eb107b3bb10e8b95f12fe1a7b4808f4dbecfe3eb71a44bc",
          "9e1a0660fa360196de40b599ae4262c7d6dc93dd348368e1cfafc2a3af2d0436",
          "0f496790d3c7f04a77bef7955085068b60efe8e031f0b74b1118f25f71e1e8d5",
          "7d048ad33e8c91974f9e1dd537070d76934b99365ae8d2e4c722412dd3a5b2fb",
          "3def905e85e2eb23a655599ba35182b8ee4a85c04a9e92620e4bd2f19bec34f2",
          "38f14168b0943f5290fd4bf933d35fad790a4cc0345598b83b1b37e13e7f0ec6",
          "4f9970f44f011f7cc058f858964407b2ed4ed957b2e2b970092c0207cb233ee9",
          "7f157ee7b77b0ea63024302f82f32c4b66476dd243bcdb43e3175c1069cf7275",
          "5f7005528bfd611fb880ef986a5685affa402d758162126fbbedc40491c48377",
          "3d4a65b5ff41fdb66f5449e2a50a2f24951c3f81cb2ce16103463fa37dcb4de2",
          "072db0875674fdadb3a3ed9bc5620a6c90e8607434a85a1298dcf55744230a6b",
          "41a8cd41d41698155091c0fbca6f59ad199f9b192eb6fe12d524e1b9d0fc17df",
          "d9d374255c37b7bc48abb8fc25586be5d43e38fba350e92166159237d1cee68f",
          "6e42b8f1fa354e5431a542950daa29b024451a93272f68ab6faafdb28b4e4913",
          "ad7d60b9bc6ec9128484e25d3594d987102fab0cbf117f8511e14abd7191503b",
          "331fe0ee50e4ac48aca8f755f0e4560e4823c7ba268a4ef1fcf5fc9bdd76a79d",
          "585282080fbe12b2b4d5aa92c514cce259130de2c5005bfe01c29cba60095b54",
          "aa5d4cccd7fcce99eb4922e156aafb555a945313e7d3bb06d405435c4b9b660b",
          "b6d460ff907861343262630deda8366cff854aa3c0dcc90f5573e06800993a80",
          "0a07c2ef8eb9d89aff2da92661f4c1ada5945b0201946a5d1d4210d3450d380e",
          "c73bc634a6ef7db2975a1c64e17bb1e4415a4561dfaac6c450ae3e58623cf726",
          "c2955ace3525aa472ca0cbcd09b29b3c4a3b1981bf1dd8bf0af3f5695b2a8298",
          "0ed088b9ff4b9d949bd1306a0b1d3828a611dd6bcaf255017a2984f7d65bd03c",
          "5afb34e738532ccd5cdc3b18d5225dad6617faf3a067e4ea0499588c9b8dbf79",
          "6b40b291bb7671ea8112c9795cbde79a707dfc70f9b93e2894965c5a71484737",
          "58ed94cc09f91185d06e3bb39ed22e8c6017467206d4f5db8eb8370245bbb811",
          "8a193dc1a4c08ed4cb56b2574829910dcdf3e23d6c77f014f786f9d3cceed346",
          "7a85dcd827b2d0327eb9dbd92c68b157ffd37fad22053f338e609e7da8261c73",
          "340fd34dd1fcb248a1c98634296272d3686d37221347aa93184db2973dc727a6",
          "f637ce4d63d071ca354a755ce2c03d3ef4f5376d2ddf89539c54e74815bc53b7",
          "ec414e11755a674f9bbb2a719d9ddc2ee8b51c21924561bd72d4b4827d472979",
          "93254c72a6f75c8628b88e0b254454588728ffb7bb5cc03a730ba60a79e17618",
          "8c994a370f8d1a13ac4eb7a0961ddc0788ef1488a7c41a52f447e83b4104490c",
          "43f80b0e329843e52307aa408805cd83aea8be6e23f0c93a0766b687b10a5713",
          "f1f40cd5b020c63e626f211e8d1474dba8330f83ee7e4ad3a06599b141e700e2",
          "e4233e06d6e4c46bd4b9e0ba01e896a5a7a0c2b66e26c8e68107ae48c5685ee8",
          "a52429504154f5ec3b0172a381658f969550a4f99b7fbd743586a6aa96599e21",
          "d24c6be223f34d993f55daf6aadedd5c6496e6a63d28db4d0e2115616520e120",
          "c656bc78b82049603f948b077bc19b49f1efcbe0ccfeb87300ff4b2597de56da",
          "6ad5b30960fe6ce1b1f964f85c10625633a2b8e5de0b345dc438dcaefff2ec06",
          "1e07ea0ea07aeb4015bd738c65b14d611e7a0943ea2cd80e63577a28fc0bc6eb",
          "932b064e43634196ab40aa538a09eac1938b077d9abf041c3eafc53d94293e0e",
          "44dc997572c88651dacec3d8605c07e94eda40b46e46b86c38d5c6de81be9576",
          "73d7f35879c563ed2dbadc04abc6af98082fdcf69903b36afad75f7ce4183902",
          "4edd208c1f040095a131951a3a75d529c3804565c79575a3a5440ad235f8d79e",
          "c35c0ec661fdc55e5b9d9d3763571558b43c74f22fab6283be3265b9b01890c1",
          "b818a4d444770bca2db029a5bfdac33ba5ee21214ee16920fd8501b81b76766a",
          "1d1115fb7feb44a263be81d11a79738c214ce7e5051f3cfc309cc7798d05016e",
          "1a19c392fae6b07f12958f623ad02188715075a18f26b3b3c44dffdd9857a379",
          "fc78de7d4b18d3f7a42141e39e61a24433f24f06f9b44adff922c7c816be1ce6",
          "9a606b477d2b4a7c7acdc0177d7fb5d3c7295ed180c52c7c093fdbc6f949da5f",
          "4153def4cc42420e4c5dcf6ebf4fc28002b78eda143afc362f5f8a3b5a60527d",
          "41553a765edeef7bd3984bb1efafb4326f1c8c9f019b091d46d0d94848aa926b",
          "376f5ebf37b1030d3b3e5fe0dbeff1c6bde32941582dfc07394fa793e3a4f098",
          "da3beb4e78defeb4a811cdb5df90a03d3779b206eddc6a25b25fce89974bd08f",
          "e4d4d4157a42a87498f340675ab82ed01d8fec3f7f39906f9abf6126a95eca8a",
          "8a662cc6e61368d7e8f8e8272ae725d285ce425cd6d9eda88c44fff498b2a314",
          "6c290432705fbb2ab3cd17fe347d6ffffe5bbe10af14fde8107c49fe821e7c60",
          "6b8cebe4005c9a87d912009062eac7e0b0db3d96fc5b66c3a93bce9c2e524692",
          "26f585d2ac4e8152afcf0c191057c51d5b6d81e3e49453c958ad0a7aed2dac24",
          "25942a3d03c80a93e9975df42a12d625d63f75ed022aa0ae559f5e2e95974192",
          "d6f43449eaafa58c74650525743ef7d491942c7775f5b1e4c95cd1ebc1c7c76f",
          "1dfeede87812442cde22067f70632b1b77ec23dc8b07fd67c2fec1a31edad886",
          "85dddad18fe70f16e9328373bf0dd76746db9ac5ce8302618cce79769920c0aa",
          "31577745e60b4a8cbc3112e8c0a52ea2aad5f3d87ba9c6df512bfaaae14354a8",
          "ccc1b223506079e407aac7e45cb49b40ad171219d46c126b6c3cbdcc55ecedcd",
          "e8be146635870e74258cc8b3c8f4fe51482775a93213111ee82bd335fae50af0",
          "2c76315a98dc4e8713b2c7d181bd237bd284b86c722cfa76cac57b4928cad921",
          "f28f7524001b32c28d719f0e839c0888da0b6387e0252c4f515de8979069fa77",
          "0cb5b2d251075bf39bfa6a940f6023699bb5eb539ffcd22405c4c9e510c61ff0",
          "f84a301ae712d31305c9ea141ebe04fbcd4953c4036c719dd5434e11817665f0",
          "eba6f2c298acd3068117c68f412c66cdfbdba3d20378007a0fdce2cc73ec8582",
          "77528b773fe9ceaa17c8d06673a85544ed7efe6bdc201482a780e2b5fa505256",
          "8ec4935deb49717e36c7827af42832fd9a6b659b9c4d2dd6d099ca7855be7f8c",
          "d711cdae05296018af3e91bc07aa901df6a7bdb8742bb1dc9584f1e3630a747e",
          "b13a53281816e70fef550db3c073a0a25624d8c7d62dc72f6bbcfb383f80b71b",
          "8644c10801ff09ec637559c25bbcf3476a8bbb96192ceb7b70c1ea77505d6700",
          "f82586ca7fb0d978f2a7b2f49d5cae47debbfc7f4dc62644c6a3d8949a0a545c",
          "a034801a24056992b4348e9c992e27b3733acf0dffc1a022f0f45ad09555c826",
          "d7e0af82d72734b62368531812ccf54f1f2367bbe9821f35d5efaba2e7acab15",
          "524f8d055400359de7b0ede977668257aa40133f3b919c45cf843ba6f4534c07",
          "0f8a73fc38db9921aa0397e25f1a481cbe01447972a1a98905431da827ff77a5",
          "b063b9e380134e08b5b4f1103c06cf1f99f1e82228072e501aa69d56b973770c",
          "8c507bff77f90423bfff745bb1eeddb19403598c2c3dd270c2d55e22b95ac4a6",
          "a635f8a4d78b0e0ca77949fe16b7eccb79b1a64e039f723b0afec730d13bf15d",
          "9f5d8534f6da4158bcf771f4656bfa4659f11f1a6d6c690ac8f2d089a4481bcc",
          "f8086144f481541da6b04ca99061433f8f39c249196c6fe8c8ba5ec9d91bf259",
          "105fbd898a9f4e5bc2260d37c0842427cd037da14052fd50a279440da5c368d4",
          "daf485ea6d7d0416b4ed09bf2477188b5f14244bafab4466cdcaf5ed7167e100",
          "ed678bc857f10b8bbbef81e2c5651d9b38eadfcdde2e05798bc48d41e6c75a28",
          "b9d078d983b2dac87391926f046559115a1e925826f016bab293c5f0a650d1ae",
          "fbee6c06688bdbdaa1624c93dc8d8c6d22ccc30585b340f85c985570bcca667c",
          "8c561d5bba390ce050a9ef4ffdc8111b6af9a2b2124be38aa7de4d5d71d69c4a",
          "35ea91b130d74d0fdd391d5e6c105bf9df14c0976c8ff80f807be7561a6f7566",
          "3eb0b8444e4cfe1b71e81a9ce273c78aca3d959e6400017e03816eeebeca5056",
          "2cc62da19478ad3ee93e727f490bd385618357b4890183a9a5e40150b98ce03a",
          "46e80e40afbf6387fc72e3c03ca9b12b5eb77dcbf3823d5fff629a892563772b",
          "4bc3e62bf7b3f703b2082b1b7b54c4060c059d7803359d99066113837b1f20b1",
          "dfa9a39fed74d87ba8ab5e7bbb5457693bd3a30d743d4e70711d6cce772f9126",
          "6ad36ee78e1b0351164d3719e8d1fb1534ff35572e141ce43ba5036ca34e9925",
          "814720686f27a03993d01586305192cf696e65bed8dec9589a3098fd6c203c74",
          "a6fa9fe0b0a0ec5f3f21980f9cbcd690381d582084efc2a522698739f8542ea1",
          "306d340676b7cd96c4ef7c04eab3937c25d03abf6be3713f1987ff7fff641f68",
          "bc8802305b2084aed68d4160b204e5d277ed633d85fff04579facce1cb826544",
          "f0d7cbe26e284db58a66950e8feaada8a48cc6e8ae02cf26d7401dd727ac36cd",
          "050a9edc8b9871ca98eb06d7d4d7f2c4ed10c877191b341f708fad93def4b5c7",
          "75699767fe5c65a23fd861cf5eaa1897caf4b2137d470bdcbaf3d1ef2278212a",
          "5d846444d1d77949ec81905e79287934fa35df1d660c5e07246c0164e78f7ffe",
          "82c40686b888cd33d82ee4743137155ff7b4c5776481471abd0cac751746dc2a",
          "8bc82b5c4e46e1693318bb88f93ea27de8603613b303a57343fa6cbb644e306a",
          "292716cb55ef5bc2606c686f3a69cac478b2732a4d32d014da49f13eb1e74da0",
          "9983893e573b986805d58803991a799857af915f2a0040daa0f0d683d416be67",
          "0f1adf37756edc433099ae50965fc6549e2d2edb7c883dfe5148e3f92eabbf9f",
          "bbf28df3b715eb936c1c0e90ba8ca6b91103a12121bd120dc286fbfa72fe1c72",
          "88735b7b3f1f8f194a1715789b0e61d367765f11af03a2da759701021a53c9c2",
          "d2e85b141ec67824440ac453df2c3ace0ec80b9fd4c630d536d729b1a85bd517",
          "b4c4e7403ad5e4f4a35b3e990411d3951359cf0f7c89ca13f4f38f3a4b4095fd",
          "df9ac48cf15ee356a3b14e0bad6d7035b8b29ecfe3348642e006b2b7fbc325f9",
          "fbf260dca63a69a91cbdf4a946e34a04d48ee5d4e493ade544ed6f7e92a2b420",
          "da8976fbe71b1c813ac0d96be44e4aac8cf7a589ba4492073b5c9965be5e684f",
          "7ff27b9f76d06ec8faefbbd4698cdbecd02646ff8cce661e1c7eb55ee12ca2c4",
          "6113f561ba25f82e8204c506b4872c337227ed7dd1202db2e1fbb916279f3c6d",
          "65891f4f8827086d5011a2ef928867533a3e14a5dba894aec7575d476256bf46",
          "574e45c2af65a05bbb73a121c396e78905220e4acd400d9a08a3f2b5ce374c4e",
          "cd22cba1c7b184cc34129cf54ebf23816c225387bbc657959e9a6dc5d30f266d",
          "55fda18efba8dfefcafeafd8b8c2931ed443d9e46f0e4d1c102556a3d55f7a5e",
          "0b7b3de6fc9be1072804649f25e4db5a5621e77fa9107c5fd15578e059d6226f",
          "633ed9fe4aa9ffd07bffc8f428223d269870cb4f4afbd03888f03bac5cd5615f",
          "afb0c50ab6b89563ee2ad99b719d671ef0a116d80d608276b9947c7fb66f846a",
          "05f99d639ef1f635bb90f612fe13d78222fec1f8fc68c1173e50f669c98952e1",
          "909a7357ccd2d1dd1980c5584639f76179ac4e0973d9d0e28a0e0583c25efea3",
          "40e2fd40487d17f72de6c0abc34aabb444a5164c30b070f7544cc9aebcb64301",
          "f8a0c2b1e3e5b3ce4683b78a952aca8aa70d5964c8af315dd6616f5927c6ef7f",
          "09ec052885b147691de4aeb502d112891dea9f776ca521aa2fa7f2c795fb1b87",
          "d4a8afaaa92c76a91f101f04ce9a69a68d873662005522bdb304a7e3dd1776ee",
          "541cf6d8e23712a92002308751297509e48c7a7947e1138c6cfa75369992d819",
          "f33f92974124f5fa460293e578167c49d693b95bd62a4cf88c8ee9acff6819d3",
          "3e93f09fe37b006e633c25f27aaa4311596da2d38d8526a11394fd2e62f6f618",
          "b9c3181408bfebc268f72fbae7d0b915f3c58794e3df0351d5a76b2c3c021f56",
          "202395510b801edec65f2ca23250dcb012b27ae3c90755f85069f852f4451a3f",
          "7328aa86d6cd2af36ac6b49351a39e8e39e2712f20394ba5e042c7d7dfabc9ca",
          "b1447942aefb74118b6b6366aa673064ee2d1f46b27a19de12d4b36e89926422",
          "440db9475805d42f624b3a8b437acb9c6aaaff0fc70c317faf0bf25e5ec3bcdd",
          "75121d1c60715aa6183f7d581444d39d9b73f2c32988d353d6241704afc4ab6c",
          "5bf25ade9c6d3db2a4e17bea94f05075b92fc5bc92cc642b5cd8dd1933ee9f9e",
          "1c70cba07ce9f3acf8855bfc806ac7238b32ac28bff17f5b2b11629cf73348cf",
          "fd56fd7f61af1fe7eca603cd6350c7ad02b0f90ed312d11f456a0a1f257be3a7",
          "a709ffd989e05e7e77a0cb1859866df502d8d83cb78213fcbfa4413c5d014bfe",
          "5f96ae0600ec768d81502b58b946db4786ff50f80ddc45102f874f38aaa70b63",
          "db01e723939d5af1b0db96353bba29eea1942ea5e9706cc2d97ffb54c8bc3828",
          "c3692d90786275f0355cb0af48e5bba98cee07e977b8b6d686edef96500e56e9",
          "66fa0bcab3c7b0b0588392ceeea841f29c28ba0d78d775c07f683879acd68cb1",
          "588df8ca305faa69a26a70ffcde7d8f7de45637d295d2a8c2a1802868b85911c",
          "e529e8d00557202d3298e7c4b208100bdbfff28df58b37d655cc430ac9e3c4c1",
          "09cc3856681e7623b5ae943550c41df0a01dcd5a7cf6a51323fb108c230527cb",
          "b787cb5b3e7fd8d381f948bc192af425436e95dd34d2643ff98cacd282590920",
          "6273778521ba0c444ccf3e899ad4ffbc28d105a8f08b249ed4627d6b624d5885",
          "e4c9e90b69ee2c582bf204bf5edd00f321069f8459c76834383602778cfe40ad",
          "05f40fc715040a46663044e9932b977da773adb7cbb6de05628a3e9ad81394fa",
          "e0614166b577523d71a4225dbe1eb864c9d6a1ed52bcb9df44d200001ace1090",
          "1f6e5b23e722e5e25f1955003f862d4e3ce01bf5116a76a7ff91cc979dfe5512",
          "6be213921c730080d037025975a231afbc82625fe861413ac6a313b3b8aa21d3",
          "f2be244c78815985a432af96b8c3360c1f88bc9342cc57737dc7c0b19db6e93f",
          "e26404755c9cb4961c1efef88566897e7e961c3253cbfbb34a3078781e0ae64f",
          "88f39cb081c13b312d64de3896e33b5f6ca8937c737dfba92b42a7b39c75898f",
          "62cab68f9867cdba01ccd1c3502ef99bbcdf34e94603d75b11b4072b75da2489",
          "c955fc6d909734882f29bfdd608ac51983f09713404846b4941138203290b829",
          "fbdc699dd24d6dcaa06694de90d028595a92e6913b094f06d20ec7223ff2d3b0",
          "77436870f14ab39be36bf87ac8b5a14f7429e736c013a57b2e94ee250dca926d",
          "e43143c2b94d1b7bb96d20a871e7204a450d951e397ea8825d2e4f885c0bda6a",
          "1f98f2446386b9436610858643072ac53a791b6e9b0c8eb85c6e85dc47789550",
          "f845c4174c92e0be214d5b40d43d8d36634aa4a65203229358cf2b08a2c71dc8",
          "5605e70890e078661cf93f13f435d7a7750c99f81dacbf2d45484d1dbe7c6a8e",
          "13ef0ec25f63673a6e7bfdaaefd07a515798be795c9b202de9c80b9964e7498a",
          "7ab2d983e9a0ce7e0eed5b375a740c5454277b31d836e39c54dfcbf7c2ce45a6",
          "76536ef4a520e3386c447e6fdf36dd4f64b4e90350933cb3ef0a3365520fff65",
          "fbadc26f23fd24b4e824c453c5341e9d9bfa53aeb52874320b85744c85f2fd2c",
          "64319f140d6e6c99893b12ae436be2d915bfebf15d7233b0a21895b6f37e596b",
          "b446dc1e082a6941b89dc1474f3de8cf53a2f6feb063f294d0bfcfb29260e10a",
          "6bb6b8a8824ac326fdc985134028f4b31ad23e405d78b201bd9b1449125c4140",
          "9a1b2a0664f3be6c20b199e1be062386c6be30dabcd743956eb66ce6198b3de7",
          "0e04209da41e3b13ca75337691b3c2c19b1a1aff0dd372d220bd62db545c6a35",
          "f8de12791a7975bd6c87f6db0401cbb8b3365d76f6feaaed512efec9153e3321",
          "c663402f9529a4016e1eeb5f190f70ac7aa8c742055049f506c7369c6b9d4bcb",
          "d7aa4752938b8b65a08d4ab347b99ad706e07fab22a2d33369ff283dabbad563",
          "fbc2ddbc9d6c90d0d2165e320a752ba9983d45c1cc667ff89faa59015e634d8f",
          "402ca9ef6607ea0b33f0a7565c01dbd82cda1263f4b16521ac4f2fc6a8e3d1aa",
          "002cebc9f378b13816b3712d3c0970b592ead18572550d6eb77b166c3f4cad36"
       >>,
       "200b777cfeb92171f683b41f895a293c6360f66e831e2636d44e36d579e3608a021/01/2018{\"amount\":24}",
       1,
       <<
          "25186864cae45d8009f7f5a4ec3f9ed6e3426698c91df19f6a17b9cedf62e8ce",
          "53e6278286a700fa10bca28376b74e48fc4a552636f00315c3aab6a7b947a59d",
          "8cec88d998f43e84106344fc59cf2efeb70d6a424d2b240eaea10cdcbe809ad9",
          "27f7c9a895ecb77422921fd17c328bc2bb8b8746eec5ea986e2e86b436489869",
          "6bd53e73e0e8959f37ee42ccd3a7ae488f2f147a9de1e33e620ad822b51c2304",
          "2d9b849a56dd4544337d0b876ada09af8d78437d0eb48a34e5174c7274aaea56",
          "2600ea690dac6016a7701708240d6dd0dd10b9c8d9fb6fc7ebdd4b118225f008",
          "e47336b5bb05768b58a03ec699e75c24c22dc3ec81ee68bbdb30505822764207",
          "e28795b9391517d80499e3bf32a9a968722409e86a416c8bec9837757301924b",
          "fb7072b58b40162d8fc29ecf089368b4295870d94106eaf2a624f70955544ddb",
          "8902b4828143ecbcda07f80cfbe71c8a37f6fa74e43e155aaaea402ebb9f97de",
          "c151830ecdb1d08cf58c9397d84f5d2831ea6260b0465dd271d445e8dc06c712",
          "af986bc6d80b667ae424a4c179a9fa9e6e4646c0281954c7ecb95f422c4afd49",
          "732a251d25366e0c1d627d6838cc341126b1f9dbc3736aad0ce12b12df8431cb",
          "a6795b42d6b3a7b9e9fede2a914415e25ea8f90bbfe5293927400f3a4ce5289c",
          "897e924c472034cbd15570dc97fa5a74f20f82b2ddd4dfd1b0a70a61396adfbb",
          "0ff39f264d22289fcebbf7320fd74d827addbfab796c3cd85d6c1004c0317aec",
          "9b3956e9c1bf3267042004ec6e0edc3860b968a6f68c70cb2fdbb0b958498e2c",
          "d69bad56e3f31515737c4f23e926aa3e6dcdb80fced7d5c4be622255fff8b30e",
          "8dd5e744ebfa223ed546906660b4d372cb50d23c954fece673f90091f8abb332",
          "6a888f49ddbf3c716eb3f5df9ef58b1e8241ca39cd7af652f06c9ff367202206",
          "93511d48a244ebd395f2a45bdfd255608a7a495be64a983af5ab2bed3a9b14b3",
          "a3b7df23c75f1a2ef941a610e9c12768d1d50906463be13c2a1d7f59e4a48151",
          "68e38ee4ec00e5d92c2d9b4dcae09fb15ef436e004c97905baa828bcb0726424",
          "bc01bfcbcfbc1e5ea13d247bbe613fdf88bd28d0e7902a20108001f2be267800",
          "269375150cb3df8568da97e41b949d91644b653637fd5be6f5893ca735dee139",
          "92943e500d527d965e4975ff79249efbebdd276de8ded5cfb73bfa30d8899df4",
          "40ce38169f5cd635d7336f4f64ba6c87d9a1409d758ce5c493faf8aff734d003",
          "5f07507a254b272acf67084b81966e8299ac68ddf2647b2d4ffa817b4ba52b1e",
          "04f0f4b39cd258c50d1709a729728c0a642f72a13bf3ccb8ce2cd7a057caa35e",
          "54d70ff46ab372c37221652646b417eb5bd81439459ec2eadeac2802974b6abd",
          "d28cd417e211649c6d4b035311975fa2c6c0a7c05b8d6ce1234f14f2cf963e99",
          "5bf351349ad74d0d6ad4c23a6c4cf34a107a6859106e34dd88144ea13917c2f1",
          "2a31cda7c20a70cc7f451e555121ea4b5524eca2ca4635df59bff149cb9670ee",
          "4dc3d5dd15c2e2b48c01b9da0b78783df7633e4d9f750ecd3ba29c6930ec099a",
          "95e0a2d7992913b81df8f427e280b912cf838ccd00df5ecdce12a2e5e3d6cd1f",
          "3a874770a5708db532c68ad580bc8f38137c8e23040367053087d008d4a8cde6",
          "8843a917057fe17e48c35d5c6b465410b291bdc162f9bb5a113063570a85b89d",
          "b04a30cd78d94b5e59bf8f78d893708c3df65c44b2afffc719546782a4ed8584",
          "27db954c3c7ba6972957e799a58538db7c681d822d88fd892122f013ecad828e",
          "d5d4667f88824ab4cdbb31ed171c7f62f279ce7cbb2094c35299214796cb8cad",
          "5a183e8dbd0886cd4f71b4db4c3ae2d134537b7f9f1d0db2c95ee676a86c3581",
          "0d20bc4c7cfc720a8e5faf953d99354a4e001bf4a9af45fa012ca8fcc561a2ec",
          "2df6c4eb92e7b51e2224bf0b00fed7c0d09a5f1f9b1d72a59e88f81b7ea15297",
          "e9a0e1aa48de31d139fdfe815ab4032328e84406c0faaa6b5b0fd8c7a321d519",
          "45581030c60ceffb9015f021c27ee141fb2eb3352946cf76cf7b31af4be93095",
          "a24f36eaa2283ed506cdbbec0c0a50be85c2a789beaa1a8071484c3995c86b0c",
          "8403dd84996dcccb2205f71c6008bf241a2c0e31bc8bf4e69cbc1fd5c507075e",
          "4808be6b2cbc5908c0149cb06168006ac9341040c52057e86a48bf02ffab85a0",
          "41fc0cb8d1001a725cfb8f97ef4b6d803148c4b2c529d19ea9358f10db1d4592",
          "966dbfec15ecf1814f671dbb2a49fd0ac2ffd93a92b0cafe70c8ab69f46512c5",
          "127d1e8d68a299c105f0895b6db27f6f9f391ed04320589c75952ebe207b579a",
          "44c040e2fc4df7b136fecaeded15cc3ab14b2f81e33806ff6632ee9ab4dfcc73",
          "37bc06c6964326af4e3686236c9619ab381ed3135a52e8574a8d911da86d24da",
          "81f76daa429aaebc888d196d8b9a4e80f7533e2af048d2f4b266cd38c16e874d",
          "b546e784433f540e5b6b5c1d714dfb5c1007eb3594369dbd80fb820c49cc603a",
          "a6ba81734f245e7085c023a28f0495e7fdfb3dbe3c892302220e3e52f1631e0a",
          "86c5bc28e8c5e17a70f4231ce245bba9bda11f6e259e7ad32e2685355c8cd027",
          "65e9333e645f07c025f9c9b50cdae6b4ae94b665c61ba7379c51862c71f7e7cd",
          "976dca39aebb04d8bd6c86573774dbc654c24c0bb6fd745aae25d8dbc556784d",
          "83285af6eb71eeb99221801cb01994dab1dc11a8d4f80a44245e04811a24b375",
          "f54b194eb032b4ca81e6aa3354b157e021cd1eedebeb7a51be257a346e7cd8fb",
          "c5499287fe3c6a639bfec2b9a91c835822cad050a86a163603ebb56e6266656b",
          "e83e6ffc8deb0002af11cc7361e920b4215b9000c1e461e4011dd323444bab43",
          "c2f789c84106a2a0c156591252a3b5c45ad8bfa6e81a40992c02eb6cc8ea7efb",
          "c11e392b61215d3a5cf08284b367f80af9cc890d17e78ebbec35d94fb5b0f9d8",
          "6f0634daa668dea8058f71f683c60787126a85ff805693e25af95c130bb25cb5",
          "5ba3fee7f4a7d0c3c27fd5996fec59e23967b955dec946bc480bf63fed4f341b",
          "add1290288e646d81e9a6c62fa8cfaa4b552fdc85ce27c970fe0ed0afcf30b2e",
          "3565148af8b025e2f8721f1a050d61be9c367bcb7d79764ca0ce38751f2a75cf",
          "a70ad9b5c2c12d415eaa9177e6ed92f5161349038fd91828dff4689ed4327e67",
          "157d1b6db4a742125a2eaa5552cec1624b5578499efa0406c9088154cb3f4e65",
          "8101115216963e0c33d07bc573b2049f04104da1631937bbd9280d8844f9f012",
          "604e79b9ba4deb504e220205cd5d9c0b1de0019308f4eee1c7638d591673d18a",
          "fd7842d7154f0fa1a0932caa26b3721d4799dbfa2234e68a964ccb21c3f1a115",
          "8605aa08aa470323d6aaf6d8aa3afda84b22c1ec83de7a4b4b93199e6cc6b703",
          "17f692e6c55ef1c68bf83d2a04d3460c94a2efc875200397c6d1ddaf01a51e24",
          "e05e05f1ec555699609be22f036c5c08fd43e3cbb29d41c00f55f2d1abb0fcc9",
          "01013d10a0b4e3c98860cec5508d89ff559f618e6b22a405998aa8dda27d5caf",
          "3d70e8679066c71cd75f6026d6faadc8a5b8d03570e1407bf7886a4ed4b1d540",
          "0700bed034ce04f0e354f9b14075126bb760d8e2f62edfc4ac08ff73b10f14a6",
          "c8fa2eed5eaa91bc6ebca1af298f5d8cef8c6f8e289412ea226c39869071e0ed",
          "2a90c3b3e983135a0c47bd3e5dd6be8d465764f6809022d74512646b6748416f",
          "0249c3e11cd16041444e22f06d4a6a9e28aacd5e5fbcb0720f2ee8243e8a6fc9",
          "f3717ef3add645c785c154426bd7f4af5bc43c929befc1d975953d1b0e22c89c",
          "daff4d3a273f79297e916218fb51b117a9f56a0386ce462f1764353b68735382",
          "bf4afd1c8dde4f1377c9dcf1f04d0558bb5755f511ad3487be70f43b21ab45e4",
          "91e826037ba1b887c3cee239ad13232d18c952417a6b5093895caab9eaa5cee8",
          "42274f964fbc21ef5c9c40e85cafd31da0d9676a612d5e4e278e86b907ec1e2e",
          "035910c4e0b45e70618a33c0f95c4a6f59f803ecc6b2918976595ca6167e9fce",
          "9b67f7cd3a317c093f1ebf33e7731cf3c3324feb06fbe102a039a0ef358679f8",
          "5def9fdd67f18dbfd6dd07de33a5e27a95bd2dde032aad71ecca367393f69598",
          "beaac2362922ab65fc0ce1fd7c31f06ec1733d5827f5536113f6ddbb72614fa8",
          "12302f9361a212fb75e91ae38ba99fee11fba11a321f7c87838bee6e8764f86e",
          "64fba399947825df9077308fea34d8320c812f46986e1f86b51752c0f099404c",
          "eadb5bd7480e7b9cc5b6e007196a9c1df868dd6629a33ccf8d5c2df7334a047f",
          "c9716ed1791fd3f07a759fb9153b6657fd8422bdf9f339b5af67a5988ccb2ad4",
          "fbf5c5562c1b1230bc9f97924e1e7cf3ad2749dc3aee2608869476e5c2b53348",
          "b5809a96c46ca4aa97a4720dfb0172b3029c60332e862e821acb9128f21ca437",
          "047f84ab9426a8865dc6781c27018ed96770e077bf3a24727b43eea1214e5481",
          "0b365525b1e49508be0f085d0c46752562f320e040bfd4d66e31b920f2e7a786",
          "2c032dfa8753230a80e01454800d36348fdaccf31289e27ce8043c369aef26c3",
          "08ba9afef372526514b002d1b9313019af52e3f2bb4688b166987fabd4aa8d8d",
          "6d223a9863c94a50173c48cebd729a67ac508f2f14ae8a66f6a6e7b0d7bb1951",
          "fd6deb8b85b8499492db488a92ef8bc6902dfcdface10664f727ab023b4403a0",
          "01e2d6c9eb382b3a488de08df9a631737bad519e4cb33f3f2c4f9bb29374c62d",
          "a9d4f33291efd6a0d84d5fed46948723923e39aa8003a6b37d916173227c29f2",
          "b4e33d3ecc29fcd98d81d7c9170abdf62a3af97aea75ffe2ee1e0760a611430e",
          "632c34ad820e6202009e17e389a3c8888cb435d1d3574f322751b2df7b859628",
          "c696c20c316422b7c4ed878bf3ad4ca9e8a9942fcbc9b0cfc977a78cb5a71b01",
          "6f58c0129b6d64288fcc9943d8dffe43462f51cc696e214be1d51f23ac9bf99d",
          "511b36876c7588819b7ec25699e58b9edcafbcbb03676cc515b137f32ff5f4f0",
          "809e2cfe07457cba33e94f91f5f8e64d27a776569c44628f7ef7e0a4b01eec5a",
          "51a763277feb18eea646cdee740664941ca74656f8b5aecacc01550a53d1b00e",
          "68d7632512e5919120281dcf91ac843423359f8b2158f2a5eb9959f65cf83098",
          "c0747cf38b04faac00e5060a75d26925c3668b11bc30c31758023105363d2c7d",
          "610b8548b29cc7722df2837c8cf1ac126ace66f2f73f6c6972f1547628395fef",
          "c5bf854edbefa71a2bbc33267916a778c4d276b29d8f2a00ef34dab75b126c7f",
          "d0ba1a156e24f563bd08b6dec2b2661cd15ea1508d35d0619489efe90daf6404",
          "b4e67215d7d155bfb99e07ca00b5ab1782cfe53aa758e960532c976dac1d4fff",
          "bd6875d9d3b59f68e5cb6ba3b22cfddece6880a8574e0558cf127fcbb1822ac2",
          "1c4e1739f87bb2bb633f8a2adc819ebf5c46f715bec7945acae8bb9b6edd71ce",
          "e7db3afbb4d76f303a460e158684d51b03aeb4d060fb3656e722081bb208035b",
          "58587528380b34edbaa6b8a4781f529d4088e5b779d2dfbfb1247478e79fd7e7",
          "b5c766217bf0104962c91ab60043a749819d409bde0c9d389fd803b9f9350581",
          "7b531b5733f986cdf44d0c3da808a887614fe16ba7067db2f08180ba1f448a1f",
          "da348e3d9cc2d19c71d0fdb8ac497048f5eec5abd3c1e209dcb2bcf2d6dfc407",
          "a141fccf0856020918e48f6670c69f3696bfe060ea9d54e53d7a7952895dbe0a",
          "bb2a21804951daaa2297a7c8a772c6d66476450adc53fcd4aa78cb8df5ff0bed",
          "e1a30055650fc160a88ce44deeed89f00fee3e22f6bc9354b0a2e024453439f3",
          "e63805a40b1d13d39cdee48241f22558a64106d8f89e0a4eda8ba29bb182519b",
          "69ba8c3ea341e1a88782826f5d29ea143b67b23bc830da76a8153f7a96d88148",
          "3057c89dce0eff46ceeab6c992773428cb72eb17e6ea88c8a228ee4bd743e32d",
          "8d7e28123f33ad416063b4ac5254b0734a81ae79a7ee6ffdeaaa7fa6a2b4bb08",
          "5ab0c50cfff264dbe375480ea8ee950c39eae269c16944d9422d26d51ea2c590",
          "60a4c289ea92f244dd06e5147d80c154507d35b73fdda17e73e40b29b8790bef",
          "ff5d02632672a12bb95a193b5d0295c01b4781500c3e62cf55d97b098b513291",
          "23bdbb2890fc336d84ac3068f3b626f8ae4283523055c95ad269e35533bf46bc",
          "1d26accdbe2dd5f570f131e1cf3c8f715e6c44f860add4f3a1c20360794b69a3",
          "81c0121db6f56a59673eb640974bbd484d9004ea3a1e0d52d3564444f437c51a",
          "25d2cc21d815de7648fa0472a8aa311746e69b38d003a13ee95e1ccada96b88b",
          "69ab5730fab0e7f31f6b6bf97e3b2c21dee34b7126fc8bd8893b627c242a1d84",
          "5ab41a2c855c6aa4d8948d30abde979ca74c34d3ab2b3e511842c7d4cac8ead1",
          "7b40f33633afbbc06646a42fe8c47aeec9c65623c463e40a1e926d04bd9833e2",
          "87a7708fd51e899dfd037f19a0cff0602dc0ee202b8ccdacce0e23ccae7385ca",
          "d384fcdb3e92b5cec9c96b548733de6c208248912e3baf66824b184c763823e9",
          "6b333d0e0bdd24a17be8ce79a29d85f102e780de2921f5aa5322753a9ab98574",
          "e03c24aca2fc1d558566b33a038e6f6a6a9baa459e762ed95e28cbaf07af519b",
          "ccbaf809daa39c56819fe4cfd8ffc4f5d7acfcd7aa652972c47f446cd5292055",
          "f0187ef48311c6105d4fa58969906806d9af32710b98eb3b9014e9abcc06de18",
          "6ec68ea720b23abd25147b691ecbe0a6e01bfd95c0a861431f9286035c2c30e2",
          "22d78f60e63cb3bd3cdb2bdeece0d8ddc982870d41e31524716e38bf069c9a50",
          "5ecdbf2bd1fe5ca840b0bd3d5957e79f21a5f830bab0c0f077982fc93a848a25",
          "7523eb3bc7981393a512c55594b9ecfb2658437ad0c3f1b9e7d28610004ab708",
          "8705835a6e41203756a9e1a8bfc590a7a33acde5818d1eda21753ff44f57f5fd",
          "f9afce70a37a5fb2e8e011b24f3185f99a051bf6d57848b13ebac4f20e033d1b",
          "5ba501268095759c1e256826cff9b85b76c78d0e6f9c0ccbb3eb15c3c5da5900",
          "e5b00c2ef966675c64a2df93751228b4e973fe720856ad453a1b9acaa8f3bc13",
          "4f2aa67670d374c42f76fa300a11dbab8bdda5ade8f3ddd1d848e26b3407616b",
          "b0531019dd7cb5cff74986b349037bca768bbd594a240522fc78260064e061a0",
          "5c455ef9dca286901289786bf84b90f7851fec018b78bda21a482a02b1e8dc1e",
          "357cb35292d77a17b8b5e656d3628040a96f6c572da3cd036d97155cb4f4b643",
          "baa534944d4b52fb6092bc45bf833c1a671a340bf677edb8a1de52710a86a914",
          "bcbf26b01c0cf48b09b07a6eff24bafe7312870f1c10e97444a2d0f5ea96ca84",
          "94ff2a01f6055be1a047030ecd240b9f6d3e28c276853a96d691f6e906fe9005",
          "5a64dd48820fa2953dbbedb1cbe8ff7958958f48dc1b110b4f2071c04e7ae51e",
          "78b557aca9e55249ebd49759d88ebbb3249aad9621e8339c1752f9e4a11a0b2f",
          "6da5ad4ac1c83844992d50c436e6f262e1e38f795a31e3f4ee6c73362231c5cf",
          "a0301857f7993060b8f957abc3438aead1e1c06632ca7583d429547c55ea2da8",
          "361500e9c0a3e5eb592a8ea1cd6a9f6ad5ee3ffcb1c67e47a6003005c8fbaae5",
          "682b13b80dc13ab878b5f11e7fc892158137bfc56c8da082fc329c9ece7a42c6",
          "c5d5e75f93c5f11a6caa3fbc673837cd289896e0c1b8a7e91f1d6bc769f4d9bd",
          "adaaf18a4930ed54517d085f0f24e509b30429dc32aeaea461025eb64cb15a2c",
          "fb19ae75f360be80d1e809b970fb3106cbc96246e6d365d63e2c15aca8ced130",
          "c8034e342958e95423677827593a3ce3675fe90f5326dea6a796d385b94a11fe",
          "3aa0ccb5b7d8cf6b49471f298c350f2c2c8a28b13977bef63acc050bfd9b4482",
          "b0603545055bb584940319c79934a0a0fbfe7c5b3cce88a32622aeea2fa4c402",
          "a5820c9398fbe7907838c26dc745539134edfd77d4b42c4f9aa365e996802b64",
          "ed4fc0192b0ae3382dd78fa9a0de199f4081d6a74e58336d94ee7cba3e70f7c4",
          "6e10fc6abefa575cd2d015821cd758665bfcd4458908384be92299f003cf58eb",
          "915f1a6c15caf65dce1fa931daba52d9e79371c100d279537ab132af1b6511d6",
          "b699cba593057ed3647bc24e0837f863fe22089c1bd15c110d86810970469dbb",
          "2cf3eca5360e82b073bdfc39957d0b4dbc7667b458cff7e10b7bbf2e927607bc",
          "8b3a37e20557b4a48c987882d3c343915ac728b59411394b747083d6ca028203",
          "3a238c80492b4ad456110909a2f895c8ae7c239bc8af888bc877e5d8eaf5dac4",
          "c272da92ce45dbc00c9114312edfae9c2e0550be21b5356ef52678b8da7af1fa",
          "cea39af9be7be651a4a55f569cb1b95305e274a6527fe6a2cb4a47319a4ea134",
          "9e990be773e26468884d912bc2863dbb284e00b8941e47baee59c6b3bbf10c09",
          "dae73bfb9d5a89a44fd3ac6fd10a93232ca0ffa711ba674ba9373d20061024ab",
          "a729c19ff9acf14577f17b4f81f76e795cf1ec5da9655f59924d90898f9d8e44",
          "be3292e8a3e4af0a9109a41fb701a550a7ed1feb370da554047218821bd50bab",
          "18e533dcd304b535ee4f54433da46fde3c59626c3ac7d0d3befb1de35f068b6e",
          "84c6e878bb3430bf13760b9d6c88f863d8c0b3f66eb82416a6426d05f177659d",
          "a1587f810de22627c3e38bfa2b105bd9bb1f53abd8ab93f25428dc4286affc27",
          "a12f5f7f0b5a89c297e6661a0f6e93f261e3c2c8fc7ac95601669f5a0fdd85d1",
          "c8bd70b6602981f9ff96f813553b4f1458051584b33aa1f463f8c2f877a7c5be",
          "8c2ffc9055c88b235b5884a35c293468b45acddd340fd440df2583ead61b41d1",
          "a56107f6f732b868d6fe9f157e56ce2b0ea2f91a340b4a01f4e2f515532eddf8",
          "2591a24eaf5e98ff315b78f20eec384a3193773c310ae3c137149980fb89f37e",
          "b683f6af6e24a501d37ea4a71532cff18fc7a380874255f26f90bd85c1f9b36e",
          "a6ce9c98a93294520252771199fa5bca052da032f82b909711578110ca744555",
          "7261c6cfbf7379d280a22e3c6c94abca77c9e6cd59bcb50d88457196addca17b",
          "558d06b6964c5fdca1452670be7922c24258123746f38f77c1a8c6f36c96ee49",
          "b6180bc36eeef03601d2d889c218797df07c509892dd6a75a69e0644613c00d7",
          "c498b5409a6a2affe765daf030f4686bef21e4e894d0bc10940dfc435707bacb",
          "1c722714f67070c2f1fc45fcbb02afec8401515499d1325a1d9f9ddf214e181a",
          "fbf05612a131120872229c0190fc4af9c60afeb1e06b45462c751e69c863a296",
          "df400319db1a77aca8288d60790591512a483ee76d824f424dad120659e4ec70",
          "3c12fba3963ecea3f66ad5310a4f71b90b54b20ed1c4b67f61759b66fe237d46",
          "a388d7618d83cfcde74ef747b4cd862e8f5d12d6277d499518bf127c8fc2c191",
          "bac3b7aafb9b5aed7e00c9419a72c82d7e394b3c85ba44c3397fdd4b65c64a0b",
          "2efd85612d740739bc34ca23424c39ab517cf0233d1378510887d2d8e369b070",
          "dfb57a4296b62cc6c8eb19fd14446d307d7cd14857955748fe0de4ec6e1552c8",
          "e395cbe61b857dd61a87abb665e7bcf8596107b8e07a9263634097be10836aa4",
          "7e839b1f336b8eaea3dc6e42fa32d85fcdbb67cd10f7eca99e8e50196168432d",
          "53407b6f1545916b1d5f86c51dc6504afc7df4d4f41b20b00c9281a3c84cabee",
          "83daaa0a8638de4a69c6d67391468dfbe4215ca1ed0b49fb46f02ad26e17dfa1",
          "0d9a92787ba300ea6976fc1c0cc6ddb198b9407919b793cd0dacc0d4ece5895e",
          "bbada0a535188f7a8d29e8fddc5b412e5cd59d6c94d72820192ea9b526476e74",
          "9f510c8c6d339b49d938889ebdcba00a169adae6c6a96f6576d8ea0494f039c4",
          "b9bfec585244849ed528e2ab8701bf8c757c5fedbcd72f76ebaa3ff548a0a376",
          "f29c5f603bb7eae447bb5f77c3a859ae147c3f01503cff5d9750b6751c2c57e9",
          "8eb77af5f2fc17b17ad266dac3881b92f2c2d60197aa4eb23b178054f26da697",
          "c75db5202b0b1ce5d4074a7fc519b1eb0397fb393edecf0bb2334f332d4c3041",
          "dcd78c7c4bdd024ce01f987c2d593905d5f29b44bdbb7764c7a47ad976171627",
          "1f4072700af35bb084f410389cc7e4cb328e19ae0f7f84f2fa5444687d789946",
          "c37d5446dd4cd4e37c6ec5e51ec9d410a552b799c204f776f8164045183b619e",
          "2de37fe8e2ca1e55848c3f64798d0918017a797a0deaf2f83763e06e33a45a79",
          "7efe5bbf196da41327b20b17c52c0173edba1ddedd017c0a205d8b82ff3f8a70",
          "07e5095dda23f186bd99e14ebe13af6f276b9a840d3fc76c36480fb71d4376d8",
          "a904f15859e436e61be6b18f387ec712baf363e504405dc7ed9b9dd97cc5c836",
          "01755e108c85e7427a35cff11c5c366dc39c25aaa6f422e1de35fbaec9899709",
          "f60e707d81e1b92bab3999fd81269298a56d643e5a02de7f3697440ba93bd0c1",
          "625a1b7355c315115cca1c4256a4fb001871edee31766f5d69e702f07ff1a942",
          "62c2f8e75404ffaedd982bf14aa20abcfe90df9ac1388d0ba735179cc817765d",
          "9ff5590bd673df8cf242f77c58f73afa7dab98a427f6b31d087ec94e1e2b410a",
          "b687c737bf6ab442ffa43e7680d16a742d926d07b7518ea3a846bab574faba6a",
          "b6d2f4023f84fef8df2a272ef4ab48ce319382ac2721594713839e0052bb6863",
          "20169d4968713c265f7c6f32beb4a4115da0be203a885a2d80bedd906a4664c6",
          "37e2f0b7b42ad75c54b49586d0886fea48734ff7a304b4ab9629b285d0ca2bfc",
          "fb298fe6db0df7d46654c51e0215ebd3ddac06cc43f4f379ccdef6a17971dfa7",
          "25cbfb4d1ec473c4add1abbb6dcbdd45bdee304a3194b453234ab0416a12966a",
          "1f2bb375dd15c1d4dc9bb90514995b01573e52dc3b0f267da8124063a5e6f05d",
          "550b4c21086bdd5736468736f9395cc328c763d00ec3398e0672919ea3c0c7e3",
          "734b85a31a9b22f29d37c98cd90075b378a427214047c38515eca9a9da2e1a12",
          "b44ea6915ebe2e94209ced0413441d41a75f3c047dc7049395f6c9fe79f9f69b",
          "a40e081d7bb7404aa817c427d73b334922b305a491de4905465f20a80618f41d",
          "f7f62984f2cc28618b9b1252fe28f7eac295d435c8cf97cf2d78b050377ee388",
          "1b3b312c408728f61146faedcdad41891c7cb72634072fe0c8c63ceb16f15c4a",
          "8ad07a59016f2f10bb64c3b769dca8c53752cfa4a1d8d014e3c7c0bad28892f5",
          "e8c782ea5faac85e378f94d1303ebb776e298cccb1834b955b31e2d1d93f6836",
          "52aa22583275ae88f225172746995e75a849ecc177cd4d67e7c9b9461da1707b",
          "cbb283599d6bf855a1d457c179938848481ca0ec4e907dda1aa14595747bc1c7",
          "a0e02ddf38e6bd2d4e7c6347b7cbc6a4d30168da199321a037d03f841003924e",
          "79dae47b0b237a6f18b6882051e4665f2c722e0e16a943189103a7e9c88d1834",
          "5f5a7afb2d3467f811e761feda3420d6f39c3a727561e069f0cd8c14f14daabc",
          "dd9b7ae700bb823656315d8c55da606a11fb0148b7530252822dafa466657781",
          "32e037d8f88e41e3626b971997fd2152bf51b322bd6313b6b6201ab9824deeda",
          "d40f06818dd5eda0aac008bc751f848178728e44a24cf2329c31436a3a31796b",
          "214bd35266ad84883627367afcd5b50955f02dc29fccf7dffd66edf74876f92d",
          "25baade3f1d4b3afe7f8473ce571e21b2fb987f3bc4f31ccdf5d127e6cb2cb3b",
          "ad4410c6dbf3e4f3c0829d470e536113b41c2b1f0135b4dff192a2da48ddd70c",
          "80f85f8cb8d8d44eefb9895435b6a608945197a89e76d5ca3e630594c5364305",
          "e30d750127219c4d13a991b3a0a82921972f0c87f100a61056547c8d09a29c0a",
          "552b82f75d28d3f34255cd97233a23bcfa9270780912f34253c23870c7f7f1d0",
          "8b1e755eeaaa929624c7f66713e42075dff228c49b292a892d84c31ba4e83967",
          "c9cb80a2be762562dbb21ca1d464a16d877d7b88103eddcc08f5ab09c35e34ab",
          "1c9518a702b2506016f0a121c732da8436bad05435e5169d5aa97daf071f339b",
          "780afe5b7de9616128c66fa11ed00f9f0d7def00e252cac5c7ba5ea3474ba81b",
          "b3073acb0fb30e233da1f2b77898f070e0a6f5829d5d6fd187fd4cb3f0e34676",
          "4a4f8be9622d3f63ba31f7f8002b16de135dab36cc556e458fcd780ae319806f",
          "e9ceda3fb0ae58fdfb7979445ea3ac9268a25402a13427154391ef47bd067212",
          "b6291fa6687fe6eaaab5e7807b2411666b0fe23bddb00d23e6f730afa6510497",
          "1b614db38fc4611aaf242ac4492af06e69f14d6f8a8aae241b1ac48dbe94af35",
          "48f668d2ce0eb3e5681ee9ebb27a0b835a8bd51e69ca1a6ca83621f8d2ad5c0a",
          "26c9836589071faa7ce5c75b869771134f00d5a1f2a37e346c4c4dfcb643fbd8",
          "d09601a264d519ed190674b6b25239be1d1b672d9eac146e21799245eca71130",
          "938e01358b23c0a7342665aa6abf942fa87c6300ae810a8e7fd521ea5d2f0c23",
          "a4fe0116d8216d6352c73726250bb869324e78c21e19f599072c8f126e1d18e1",
          "31564a52bdb7eba5fe4974d4e5057e4730a19726adf3f3027e764a5dd2bd1f75",
          "b4aae058c16bace3ba483d400490fa4bf68e4cfc9e72a88a2baea37b7876e37b",
          "8dd9910a8aee9b6156790e9507fd2c143920c1bbfc4076d24e29ae5dbc835edc",
          "cefc8aae89575291bdf63bd4e7c462fcb5884e458da1ecb1fffd7752d19cfbd7",
          "f727bbc03bce28ac143e9f1c705782194ed91f22180dcef3211ae536bc788460",
          "d6328abbefd4af058f079959a1179d1d5e66cf2d627a9b5cf4d8c04d3995d19c",
          "795199dbb5c19de9d8f7cf9b8cc44060bb5ae9d99f2564c52e0086a2782a628b",
          "b14ce31970ad038c9c4072fb070c8d03a853c66b10779d5e6641a0612504dd3f",
          "ab4c42ce21a444887ffcc1cd31f62fa10ae4f61072e22b70c672bb4e2fd56501",
          "c2f83c5d0e4a3775563f97a36aeaff94a64e9c1846a5c45769dfaa00b48c2894",
          "a2646fd3ed7710f5f8e0d09cc4066c190bf9ede61a331f3b0af2e363658d4796",
          "a51254ecf779c6d871969a1d10ccc07aa8d4962386632a9d863a395f205a4b16",
          "d4c9b5448c2d21a461bd89d038692b4d220ed1fab9168bae67669041020235ba",
          "e5d02660349bedb99457580b3da979142d6b2ca7d0132f4be9309a8635394a7b",
          "4555dec2b1f4d667aedf69b54acb176995d3dcc874bd17f87005edeabdb5d111",
          "d51e7540b5dd339297a9a527f59363fbc89a45dd8f6128a44993df1b18dac926",
          "d9d61de966d72fccf36f23c483c7320546d2573e42b2b952dda249690a739900",
          "10f3ca7f825eeb345dadb7ff61197e79090ff08dd07feebf152c22bff46e64b0",
          "cbf53bcd80749e3ac3b0bcc208cbb7b1763b06e2b9267ff7397394ceae92819e",
          "7a7e4d627737970d720234afc6ac79ff0083cb478a5381a2977c104177fafc39",
          "ac1058637b78c75b1035e8acca6b9c8153e83ca2fc84c0aef09a62a72565f29e",
          "f5967ab6bf5c3f8566f8a1d6ab6da8b195b91516a7e6c1218bbb053327429603",
          "32e85e2b2d89111a50230adbfb5d615ecf17029c86c83ab76897d47b2b7c9564",
          "d985c539e89fdd8aaa69fa968ecaa31712d99ef33545f1fa61d867bbc51111e6",
          "9cdd6142cc677265c972e55c06fa9da1acc893acf39fa1ad873b91c306e23685",
          "50edc024edb385b5b3349c3105bf7182e5c25bc3ab719c981be1c063c0c8ecbc",
          "56a29959e747b2572ee20f750c321d89e88d0e67db911624ab0e7e4e962abb04",
          "bef61cc259ca5b0ab32691dd1d6c55f182c702419abb8cca8eeb06b445210e5b",
          "246483353cdab92c0b8ddfbb6e1b4973a42df916e3278e5b3d73a61149cd2219",
          "7b09f452a8ca4a6ce45567498f16a16d4bf901882bd2ac4575bf55b1aac9670e",
          "57865fd313cc6f929fb538ca8e16f6e1544ea727a3c70a1e243300bea146a007",
          "4fb3eebdcaf04b054f1b0f9eacdf3407139450421a2b11dc80c244ecfb8d3493",
          "9dbb0563edd399df45e506f52974e24f86df9cc619b1880de5b983ae9324ff5e",
          "80d5f9e3c3b5bbbc02c63b29d5ab77b27d033124473a976fb626a8dd483d730d",
          "0e84328bd57f6e6577c6cf2ae1a695fd7bfa40cc72d1e92430ba28db8925718e",
          "b7ffc1aa84be7b5ba6e1467cd5b87ae6bdca79454a5beae996bedfe74c1d24f6",
          "9d3046158dc4b5308a8008246b5be50e40fa37885a76c289fe9cc9e9b650a6e6",
          "d328b036e1d787557c2d1a73ccd525c4e13b9491bfa08afe61dc4cf88615b73c",
          "04319372d5459edacc74fd4162ed87f46158267269bb6579f53234494851f5d8",
          "d438fd837d87afe93423428b6efb6bfeb29ff49a326af50d3bfd48dbcdf29c6b",
          "017eabadeb5725f79213c07a1e3b0c140b314b16c1a7793096e5d3c49d21414c",
          "f1f5734be64c3c18ad9cd8bf9bf6500003b54af054f176bf01a27595b0ace111",
          "9878e3396eba600111b34e2bf6e52765b4fd9ce056040a603c613aee78a9c51a",
          "06e4d43383f97683b17dd2ab6dd8f7310784874f6932dee05447b8cd8a6c180c",
          "71091a48345ba48757c8defc81d4a90c5eedbd9233182e36708a9607adff2822",
          "cf5fa8c782478a4e5749c828e34fa2963a0d43b43123928700cfe2fe7b66fe73",
          "401723bf35f4905474b4d2533477dc2e43a866a7af61e99f415de8432d938cea",
          "de71cab48a5d19d1706bee6f82f637a9b28013284de4386eb3b28d3442daa5d9",
          "b627cf81de1708bab2a7cc234184e91b42f7840785dcfc1d84b9c25024b3d224",
          "ce36313b4fbfa153134000a973f32aa30435a1801bbbc7c0ce6d0aed248b0cd5",
          "8e7620262cba7a0c3073c0d2dd216785e5b6da7963570530c32d198f3e5d0515",
          "a33442fa1a56f4b63906f4d2ebf6314047a78670868680dd8177d0b90b0b8008",
          "00f1c82c804df9f4dce25a5a74769ea796fddcaa81b4ed317e27e0e1f5ea42c9"
       >>,
       "200f2fd460d4c9e23709b86784e9092fe21338836c65b1fc0bcea2d90f06fcf6121/01/2018{\"amount\":24}",
       1,
       <<
          "9758f91b88ab5e01278c1cde63c335e889ce05b8f039345d57a2f73f222a5871",
          "4dccd15b8d03332dd17e920d049bf278dcd980ebfa503180df5c01e5930d7cc1",
          "468e07be2e51b0a0a941f277714739ed186478edda34505634e72d0ab6fa7b24",
          "119d9306fa51180523e10a6fb700a2fab8d7429714775ecbf59367527a96de05",
          "ee22950463af0c8aa58bd8e3e3974b26e0d710fd4f445318b62df7c94c6178bb",
          "d71345371d316fdd32c921de9fb9913a89ba8cfd2a783eda94708efed76d2de0",
          "fbe7240943c698956005e624b1cc4cb101105e85e8c762b22e9e2715b16aa2fc",
          "e18edf129643783a2940bd675ffc22a0b32765668c5d919a5bbb1a8c170ae0d4",
          "5b437bb6ae750831b3498003640d2fdfaa1cde806ae7f436a3abacbc9176ea6a",
          "2a89aa63b6d01c10efedd3359a97596cd804c903bba044afa2ac200396ff4817",
          "60072ceb300a09f581473da90094a0922c093ec3541ca4b35f7b5a7e7e20094a",
          "2dc2c32947560af72c80e14ac7550b94156688f460d539bfa4728289e7ed01c0",
          "7f6e193169368a92fee6ce63393359d535f9071236025223556caa8417d3eafa",
          "cc3e6ff5dd8b479609a3ed1412d0314d799e4169fc1a316951034d9dd1ae3f58",
          "bbbe990b2dc05375812eb523f3508b8fbeaef7854b28ed723cc78220553118ab",
          "5859866ef9773f7b28552962f95ff73c40e573e71bda9c5f100dcd09461c3bfb",
          "78b5acb2cf5717769c9e430a1ef72092e349f8e15210e47e95b37c1c81967184",
          "57142bf08c2ed6540002b7b6779cd2bb622c062317c9b6b81634c2b9632b79e0",
          "d69179e28f43198d0a88a0dd66739be6a2a41c5cf06ab3889c4dd96dabed3c1c",
          "7c11ebb6c0f6b56d9d992353f685be4333ba7eb83c53a62c2632e50ccbf5a36e",
          "b1e1f694537c1395b481f366541030e253629bb84521352cce8caf1479988bd0",
          "ee9a3e56208f63175be923ad0707d8656216123cafa0e091c4efa89b9f7121c0",
          "3dd98b5bdb114dc459620dd60eca26a280fd5e4d52878d165f44f7d19a00b707",
          "f843785310a40f8894953110dbc4f9c955196b3a3996a38ddfb4707bb12d49ce",
          "7d58a3d85379062b3ee4403468f2f457d914c88d8be404ee9adb2f1d5df579ad",
          "e448618e18ca9d0e9d68cef3bd95220b7714dafc8b8ae55c058156e6164a93ce",
          "ecc4fc2853da386c27bc5c2c520394fb41684ba2bf71c07fa7991e87630888eb",
          "ca2da67cc9020e62ce2f980cc815f7010975eef82f4b086b9e0308bfa2d348bd",
          "23a98f949b55380e5324b5d49a5ec700d0544265c0311a4abaa77e168d183d6d",
          "d4dd60a5b52fa9373c2518ed828bad8fe43c754f06453b4e83cbd995ac6744d5",
          "d8f6a64ce4f7e54f8af077f4ba8127e90e043670279afce6cfb0334079b124fc",
          "563a3e1c9193ff36ca0e644cbcce1a36f6acf817ba2f104019bb6127c40b36f3",
          "a0f9122a115396c54c9d6dc68504c07efbcd8093d2580f24fc4c07a400392294",
          "fef4f24296216b85f40d082441eb4262dab6ccf81b58fee3d103f806923b3df8",
          "048f02bf4f1a7d786f2680478ee726c018be478f7edc23220b0f66ea8c14a34d",
          "40b3d44f39b488193bca61def899559020be1382a35860897bcb77ccb9cb2223",
          "16287cc1e411ec535959ba63e95a81322e830c174e1eda0daf5402a2cac3aac4",
          "bff09acf5517b5f6c6a6441841774e85524365cd5a41ddc2be929e17dc2c2410",
          "42fed6f47d6f7256c641082c077ec86b302008e8df4934555e1d047505b5c821",
          "3543ca07635887841b537eca67094b922187c6726e40e63c58929553ff1fe554",
          "390d76161ee7446d2c2e3d450eaf25a5a782587d75a72d9369c4b0805973a361",
          "f04e51371eb12e38b234be6f843e65d3a73263e3f40b66d9a06fa61e21117e47",
          "03ae876bc181a840d26cf670606f0c99417b6df32e4f66619c8c1a75079b6256",
          "15ed073eec72bbb21739aeb4984451bbd7169b1f173d3a71ada9d036facaf8aa",
          "8052e5a904c8a3b09334c5dbd996974cea4f4f599504ca76ddde2eebfbe32bff",
          "e7db328e408a98734b0f2dfa246fb4fc66db70322431d8387cf7b15746744762",
          "bd36ee006849893df6cc6a10903b5ee79cc73a427d88cd200426e77c76929df3",
          "dbcb1903acf14ead9363d6537574cd94253d25af83b9151a1a39950eb12683fa",
          "9b550bb1882812f8639f0b9e11362bd98cffee860dfc9d4e098610cc80ca0a28",
          "0c94789e4b230758525b32e13db129f9df674712b5c9e89c7d6d39dd71a266e4",
          "01ce002f3b3a7301f12d2303b267c3d2b56615a14579c138a2dc8432e04f56ec",
          "688cd1fe2dea146ebf2164c4efff8957b80f6f1e366c9c035ea0559c84271095",
          "335c46609a6439ed2c00c1204b4e3484e35cc03c4ad73d5241a99afd752f7b77",
          "51ffd9fc2f4e29825f11c467c5bba02ee76c4e8156893c48e229e484ef1b766e",
          "46fa92ed22cad09ea4a8e51e0f4fb5c32134f6ad16891ef6876383cb23660016",
          "bcd580b9e9a8f0276e15ced38da188c85e340627aa6df23dc903fc754888e601",
          "d046533e73622a23464f5357c1a8172927c13ab3987620d04b77a938997669d0",
          "661a002dae8cfc76b1c050f2572443ca285036d97d2d88367ee4262ed78f882b",
          "013a329461c192483741980d11865a5b747571743e7f10d02ac2c8eaa5b57e03",
          "10de0a013d9e2131a371d08b720ba51eb155e0f18d684caa68673f5cd1d30469",
          "42907f30d697c7ff70842638a3c4c0d3c41b781fe382509ca52b90206b59e388",
          "d313c48d0a0e794cae3c701de30af7f8c548c4ee0c076d0b35e0c2ee55bb4779",
          "30f668a89d37b83eb15809ead2b851a8349ae5022a324e93fac76d1f94705415",
          "7d527b032a08d7a1ec00760072709dd8d35362231a657da1ee153a115ce0e3a2",
          "f4e2accb2874be8c153f6c05ecb6330b8c6e03c09b7b5bc68857e6cd2bfc49b5",
          "79a9c5cac065e98732508d708955a45abb17cf976683bf39a5b1c1af1fdc1209",
          "7568a17de6e20d3a701387c7cf321dd8fc7557e9928090d8a4eb9adceef8737a",
          "b5984aa89cb0c0e4bd5f1594dfcae3a8d9edb9f20243977253deb981850caef1",
          "f1cbda00a36a51efdb1fb38c6956e23bdd8d69d78b61d8d26eacefb4647befc0",
          "bed0127cb91d9f90c8e45524271b212eb268c9a0fbdb3ebe8d0f6f9d77353ab3",
          "5c2319409ef29f540313f80b59b45e59f21d8c98b75bfbe02785cdc23c2f988e",
          "88710f1952545ecf68c0b2dd8e83f547e12b4ded33e74f4ec025a3686e65592e",
          "f8e534962d451538b920da55478e91ca68b2b6f7f597bdd5a7cb12ef61beb2b0",
          "0e7448ce5e1dfefa66bfaee18bc72d045cec2d3e312589321d2d2b32ee1e6bc4",
          "2c8dacc1a4662733743ef220431f4fe27fef67096956bb67637935340a1e192e",
          "fe2b4295cb76ed52999bb2fadd316ccf25ef775f2c95f8d951c847c96cd39a83",
          "7fa474f2119f52f473cfc4c37d432ca826ac35e58ae250e36a2bc39109465dc9",
          "90e27473c8c9c978cbd05e1228688247e2be6fed053b34b357caf0c0e27eeb44",
          "caef7d85303f0ac41b0b3a5e577fdaa25d010ae5bff68025d774e946449861c8",
          "beb4f833a65f566589a55872f62419422b7dd405dfeb33be02652e86b75af5e7",
          "48ad0d5f078996b5928f8309d150b7be0cb9885e79047bea8a9e7c475f5d49ad",
          "9df2f2ec4c0fb564b1d8c49b6bb123bb4248d0494c40d8edacb76da541748a43",
          "bfb2526c6ab27df4469f8cdfda36e13228da0e69d531888414d22cf815371302",
          "782db585fbf17a5076e2159def922497f2f92f63757d448aea1e919950903f3d",
          "a0d012c3bbd72f16f68fbe53b2e79d404cf50c0ac3aab1b39e5ea3ee1bd7e40c",
          "9f63551e37c2543c55d554d29678c4186872735d0b3d3d9f9708c02a590bb599",
          "3943995c89f91ab7de493f98799ce4cb5a89f1793fbc9ee7b68024c067f908fb",
          "90818cd25fcb91854f37689a67f4f7c59e061eab266810ccf14e85a8a27e2b67",
          "812061a83eccd361fd5c88c6faf0c5169e7b11c079597fb7655ed69d2205b9e7",
          "12a24796c145d82d39d385bca82084395b4ce5018be33525aeda773809cd0ca5",
          "629ad086a29341ea167b458bae6b50cfc05860e4eaf5f51aa8d5631e19498ffe",
          "e297e69f25bb724af1a4590d52c6dc8c1b55917a90aaff92d07b7ff31ac99aea",
          "5d0b3c148892302651f8df2416f8043d1363879f332d20a2ab3f3fc70d93bdf5",
          "dbc886325ece50abfc4f409f4933b643641ae61fe38266efea17ef432a7053ed",
          "9eda6911005a2753c754dfbd2b18a1f28b660326d724e8dd9a099a499652fd93",
          "42899b215c7ef3792da8c9b49028099755afd352df19e762406b058d8459c28b",
          "8b20d1caf16e2c7ddc2b1ab605f661c51bb81c2b63ecdc87123eb537c1657a8a",
          "763e223f6ee3e36976b6d1e96eb3a607b74ff6aa3c8ca4cd9f74698a69bb0b05",
          "7478405afdce18a39967378aa370cef8c755492165fee8593fe23bc1adff293c",
          "cdaafdc8f1fea35b26ce2955f40302838c96ad84d5f233e6329eb073ede1f5a4",
          "fbb0441cfd4d7a0740ccdc542b2f5107e0b6ba68b81451cdbcc8d927026405b5",
          "baf23af402af443851c6d04cffdeed3f3b4afda5700b68b1dcb52f2ec12644f1",
          "0d3fb0c8ac00bc3461f24e06f3998be6838c72f053a640965f40d889f3cca5b2",
          "a4452b2279b19de5a2e6861333c59568a8955b51fcb27ec1c8b1e253ff59c79a",
          "ea51c0b5c50bf159f7339ef89160c236de3563102983475aa86e19e46950d6bb",
          "1aa30696902f6432dd78e848670c0346e2cecd8ddc3d9fa3de233d72c630399b",
          "e99fa4a99dddce40c0a819918511aa8b4bafc156fce4bbf078e72579bfee955f",
          "0a91ae54e71691ae414a9bbcdfab961e51169c2b592f183b04426eb67d6405c2",
          "6a28188e19b8914c56616dd9c3ba500bce6e379d2cb14f490d62c4051ce43073",
          "30a6b59ecab3c523369475fd55ffad17b99c499ac801c2abc5b2d9406a5fc6d0",
          "5d7fe8b79c99b4aa7914be38706b0bc9d820fe93d8682bc175b485279b4f195c",
          "561161992f7d7d1416ed00d7bddbb86a8de0ee7ceeb8efda18f7538f8f849602",
          "61820fdcc73bcf69b343291e33ea57ad57e520a1baa42560c71afdac4bfb518c",
          "f5d4a32fe0e0f72a79e3e77eef37a291fadfbba98482dc4a7e7217a161cc9851",
          "e3fef67f7133bcfc9983cb21f9a2e5cefbe9a2486b5cd38ac09023cdfeea720c",
          "9308991866fa348d793cc04ed05fa6344307e7ba39be4852a4bf4ee92a78f091",
          "2e9e9718cd9c257d62e0a797210ca9074189a1826269c670a231d60eb2b0f91f",
          "6198dcdbe5f79e29e397351b9bba3afc533435522c857c1217105714fef16460",
          "45a3c25d83fac404fcc65db78557baf5ad57b87648269a17ef87f63951454ade",
          "fdc83a06de07ba31c58d4cafd843bc5847f58de0fb3b8b2032c9e4fac6725285",
          "09548a6c264ef6908318722672d1a61f9456b9f3c3a409e3089e852913212ac0",
          "d07fb509c2d55380317110cbe5b4e4aa40893a10bc54508557b884603ca96836",
          "5ff75857312e4b2610b6a095cad80f8fc2fbb5c6e30232c90838a857703ee674",
          "e65346ce90af6d0b10f53058aa1ce7c0c5eb63b2975f8fdb490019a4f0e25fb5",
          "84fadf8d4f30d3e504759934f52c246e595d5c9f614a97dcbf93a72340228730",
          "9a46d3d532e8cd4fb20c584eb3efe995de51165820f013194d802f48318dbf06",
          "5e5316effda698eea0c04704570e7941f85d95da601f7e9ebe584ded3b7a84bc",
          "435a7bf3dcd4289d26dc3af68d446ffa55fb26fe2d9918e06f8fd19b94750704",
          "7de4523a304b6345700d4cbed5e4efb3ff478959b2bd4ec62525b188e44a82ae",
          "eea2dde653d4ecfe876fba79db084035ef5fd34b582b00534650b9b7760c9234",
          "70cf73762f5dbb28bb2211b64928c6edc8505c9d5bf36e002c2d9491efe3d9c2",
          "0721fea674afa72f10a4149bf8530a2ffdfcd94f6ac71491ac9d0d6799064b21",
          "5cd726c5adb513d2c2da457e2292d2b414046f0f8b6b5b9a486a22b66e8411e7",
          "5362aa7d58cf1b45f732bf1dbda5c04889c207004eda306a818f985943b3d181",
          "cc813b713cd33a058c1953501eef7a70b1a629af93f9ef19e5970786cf53c487",
          "5e5c9325555bf7ff39f9c084362cfedc160db979f188dc824b38dba9ab44cad0",
          "cfdb60ad71524c2f0315160e6f2528441c942d9950dba85dfb68a3f8b0ebb8f7",
          "d1fa22ac210de89a70392e36bc79bf6c0c6e5b968c639dd5d08c273590c89ebf",
          "4d045bec692d09e00300ff652f168eeedda1032ee5475549628608c586f77a31",
          "8f7be6ae4c6c91d4a64ee2456c185d0b06830fc18ae89f2eabc6c6a51ebbc137",
          "b356d39c4820db37c81ecdd1a911737b2ae47c47c75a3c5f9de7513ba253dc72",
          "8e058e05e9ad9bceb58336d071d64fbcc6828fd0d5bf9e0bc9a35581b075d1a0",
          "694bf9bb9eaeef0f5c4aefb855e10baf104d1aa48d3059c9d3a78321dfda5bea",
          "9843a094d7b8e81822b8f38576ed74cd18db574ffe9120a7bfa3469a4be31e95",
          "1aeaed2ffd5d0bceb986e5d3c8da71219f7abfe4137b926389084c102164d63a",
          "5255a153252e7ca0f394c180aae9bcd009068ed55fbb7c1d903d9abec3f0491e",
          "b026312921cc46b51a77b281c2058605c0cd627b0e783f42b21c76b29e0716c7",
          "889e97c4698ba3ced38dcf76b79f93e057e17d170ecb7a17e8808244dcda26af",
          "8a9b3c40e07944fbf9131a68dce3161e774417169be0ed84eb77588a0605e544",
          "51ea10c22967298caf67bb7cf564f97c50e880934fe7f924bbf2d22e9da954a5",
          "2f8c3e7bf9b7955ecb222d47a48e32a586ef457344bef28175dedcea603b4c7e",
          "be98c83df492b7d1cd8a138339e99ddedfdf98e7dc92078421bd845be9713acd",
          "3a63d7b5cfc5747573570ef184c7af3918b68e560448779552ce2de4e48bc1b0",
          "f6266d0faf9d3b66955f8c255b29cf50baf6f4a836b34a17eae50e36f2e583a5",
          "0b8c61c61389138c95d46a332e4812eb9e65d11b9f58ff2c6cc4800e7f9e03ef",
          "f4fb07c59ec7b4f0f37763a2aa08d1d17e00531d299390b64f449154a5324f99",
          "fb0390b80a680f29ef386e2fa337c0757ac12f686fa4e0910a01e78838149c27",
          "326e008795e072f42d52690c152f826eea8615b7de4e7fb670a88b578ed9e8b9",
          "12d25e263fbdd1491b4fc78cb57a17cafab387e289b2d8e2ad7ee84e1ee3ac07",
          "9d7a3d0a7ce6896991122d9a5c505a6c191a9df4ddbb9fe9262adca91f200e01",
          "a2e93942d84530866a033c09d18349261a783d56629512406e8f036c9e32d981",
          "b991b5c40157603a53c3c3bb22f8da8124a5307a118ae7b350ee76d56ee52040",
          "2d7e598772c809738baa9d1c2c44f7ebb245d4f76361d61ea27118d4adac452d",
          "5a15506e889da413c00e67eeacfcf053620f64b5b207e96dd327a4a920481dc1",
          "2cbded500aeec66a64078b4ff16746f4a2e30af8cb67999b61b318be0942e944",
          "1154cb0bb1332f21447ade6940ddd1135f3e7ba85dd0c8c0f883d3a9f3010962",
          "de3b3864422426fdeb3b32ef675d7ff759f93fa94ebecc940df409ec34388b2e",
          "292710480ae3dad5a9b57266c74fc792029f28938b6bf09840ca1e45f8476e0d",
          "04364503e5436490751efedd286aeb156524ae6a0bc1b81033cebb569ffd3324",
          "26c48efa4854d64834c63696743799cedad6b70aaecae858332f95c5ff3fc095",
          "e701de2c7f631e0d69ec100342d628f30c0c23704fe459110adef7d24e32fc22",
          "1aec2457ebc510ea6a8517ac8b39b7b613bd7c1c31aa68e0c1a075da4800909d",
          "8b9180d9d7c8e9984efe882e34c952ff7e7909bbe4d593ca77e0b267ed2b6449",
          "3c287eafa0e2a3d439bcd431f67d03e67a1d6e23f31533c933bb3327d158400f",
          "580b45ce47f29988df06eff1ce75f8e12403ab8548a856acdb81e71340025adc",
          "b0e3e70cd019e908256f1d52ecb19add84ab462ee2f6776d5db21b2ddcb56e28",
          "d1cb5b188fa1ce5c9a74740aad30a13f7b4ade83b08398d580914a3ff40bf548",
          "cfde1c1b0a3cb049819c8ac0a788e920e2e86ad6ebcca62f21aeecb52ed4311e",
          "0d4cc446f7b825002d164dc71350a829be2c73a38cb69582a05e99e61cbf5dde",
          "48fd93d3dcace0b4d9559af8596e34c988221d9c21bd633c2fe0d58f844ac560",
          "1c2b259adec57e51b2423408024222ba80ef89c120195026d4a476f85489bf52",
          "d235bf753d912771e6e7108b8f20ed18d9ffc4d0dd69b0af77bbe717ea683dba",
          "2cca151d1b404b4a9a13c5d8c4c06056aaa9b185a2d2086cbb1e11d6f08348aa",
          "45069303978aad7fe16443c30fd78d89499b50b955059cd7f126ff30d509f8d3",
          "5fa191a685048d2d3217fda8e4e2a636719a53cf1cf5bf66d53ed58debe2a809",
          "b1d38c78d8b89f0b11e638c7fa5471788cb5e4ccd763a26f1d3edda1ae0dd5c4",
          "3295625370d5a9c4c554cb6983695bf675967715eddf3460352ff69466568d9c",
          "9a7a3f5461d37aa68b418f3f352270cf643f1d8b0950f8352fa34adf12afbe4c",
          "4b3eac46dfa7fc31727072fbc532b6796402e1360c9b8e5d96d4363ff4188023",
          "a6295a7658e494cea6454b8d20f6003a76bd8a04696cc0e37f548255df23c389",
          "1e3b380de11ca5a056d0bec4b230821b1c9d09d83db6c2784f096635783fc686",
          "c96a9ccb4bf848ed20cb102028b6f188c98e99363516f8629f2f24f41b12ef51",
          "72be9a83f35e846a13b8a518e5b12639b868f22b253f451da83c18ea1411bbb5",
          "e3d04b5ef11542ded8d875aee7dce98021fed992273597274e69103ccdc84a02",
          "30dce8b541674517b02caa5a8e10498f09b0e46e7dd1c7b47176a0201d695d6c",
          "0ebe7105141d0b98a7879be80e73fbb1c4d5d0f54ec45349a6f6bb2adda64a4c",
          "2bfabc6c148d7a2c5923546afa0796850aba9b76c5df89075d3832ccdeec2c6a",
          "55a4db5d4fd5b8895a5d029dada8763c2d6b0328035ee29fd3755a8dedfdafef",
          "e7326f80f03e13d8d22ec940fa25b83c70cbda0438e3e26d46bd9a19ede686b5",
          "cd225cc764f27f384854fade2c32b1c0859f8add95411cfa827b59353d2ad10c",
          "0a11809f320cf96cf3b3985061d317257f7f7a4677c35d067324a1b2cebb192b",
          "482a2e76f08a7d6713944b655e8a119135ea5f82d4e282e40992e0b10a436e3b",
          "5bfc71d3d37c539fee685aa8b5f3205d2b42b3bd2db93d59a8ada82c0c68fc86",
          "1ec201ed65e1913976c69136affbad44efb36306b5f86fb120746c2126831892",
          "d4bb20c8365833515b9a95a9646a1cf7833c914312f6a9c7708c0f4e7a8218a7",
          "60240ce97fec6c2b7b751acd71520f49efd9b2ab1f5a7c16441162c9f7209043",
          "e9941311f56c5bfacc3c61a4a8583e37b04e44cae73621fb0d065f9b08b55f43",
          "1b8bdecfe5b8201790d192011d1dc6f5f2d0807176dff2a8566b7c40b6ac01c1",
          "7a836b3032fbf9761e5f80fb932b72cc4c26cbf19f8d5b8896c218e587347f82",
          "314285e10f6dcc25f324710b7600f97dd8fee275e2665213345394aa84fb368d",
          "90dfd9228d65839920daa8c0d27cdae902a3217ca66ef20963fff7d1342b48fb",
          "265803cfd582dabc3789d33b689165befabe80bcedd6f800c1b39840280ce9bc",
          "9ac6b6b24b56e48118cd0190e3dadd95a1e888af6d2376acdd18239e52974e88",
          "ec39cf0e6941f4781c90a4f1495063b6c19e8fcd9d47874987e109f163cd0199",
          "f89ae058928e48649fc3bc3718cf4a76d0560f5b897fee5bbd0c124cf89b4b77",
          "feba7c65fbe5c18d5ff3a011ee74950e4dcb32d98892d67b22e2b868edb42539",
          "55ee8114c36829753abc00817c1edf010a8ca342818eb48e49fad99201dbd785",
          "c7dc6300f76505701b145116ef795a484410b59d518cfb78aaba09e5342b7e9b",
          "0fc5947b11acd14aad7c974e6764f99f25ac79bde3effbc7968a7d7e69d24d9c",
          "c07b727a06dad6683eb588d962f3ae46df0efc4e44d722ff829c7570041a3f21",
          "1d3d451b5e9694d1f3f91bf85d8fff6b3a4905f49330544c895a7c62159a86a6",
          "6377121d893bc6a1f63cf292e3def3a9d47220d29936b89ea94a4d597d8eca73",
          "4ac0b377eeb18890d7a2fa3db8d23ae975f1aac18c3a1e6a8644fac61508b296",
          "80ae086a08f421b704a7c87fbd99b23a06a79086027102aec35b6a8bd6610616",
          "18102339bb5bb60b211d62b06bc177dade2f4de7bd7882929d21ed7db05f92fc",
          "a47de086eee1097b7a2ab9500b45cd2aad3230f4a629f129d5bfffc57d21c8dc",
          "0e41b06c60d19fca9c696d7020483d93539e6a8caf6391a4b5f2c8c0ac38d882",
          "d6b473ecd8db746e3330a57c03d423bdeb53827a9d65c4613a8cc3626205e1ec",
          "2045be6aa0c13179850c3849b8bbd015b3f052575b0d47971433aaab5e6920a6",
          "0fc14c1dcf85e276c91c9dec5cb915f1d9d2339720cf3b56f8d740264cb35fd6",
          "0e23804ebfdecda80b39cc8add9ba47dcf9427176784e406fe61de20a3c002a1",
          "e5e39d078d4b87b3d1aaef8934a005e27e7f249e1df961f480d2984a58c9a60b",
          "e2e7a4bab52129cc92da2caa7224944ac07f5af0f2845ff31dbe67ff3405826d",
          "0dfca58503ca12a186907798718d7fa32ddff07c82dc8eb30310ba5a83897d71",
          "50126e9dac3a3af40a9748b88486106965e2b4c36d52c141d7049940a7c0c17b",
          "03907c60f49333addad3d6c838b9c48e3c5e96d8a0d93bd3fae59dc9131cdae0",
          "a219d44cc3c7dde74b0bf367b2b29e6aaf6a65eccd59c12186cceaa77a6db989",
          "d6ba47f3e1edb4ac92c055577ca92561f277128968ab8471603ea3f0d47bdb27",
          "5aa5aeba71cf1cd60caf1f6eab8e985a774ff48e5bb6fdb00d92bd9dbdf2cb53",
          "f3eb73d4696e5b9376c399c0d4a3458ffac67598b279ca270de74ce2a63f8ac9",
          "d299869f8d010cae73932e2c4ac5d5921ec3ee8f93059c0aa2e19bf7d07b8bbc",
          "634c2d6fb4c75c6170e9cd0765b5f1a6d8e1952b1555a132598aec3d93158c54",
          "21af896d8c6739c27e6d8f172d6fc24f9603ff7beaee1eb805f253536397a445",
          "b9ff0b07fd0ca3fad39610fbbfdb9af132892be4691e2c642209c20a80c773aa",
          "f88912ea2777baeca62c89b4f52085b4572e6b78d1740c7861df15ba79127f00",
          "6a184987ad9ab432c496b3c1d83e726bac1c7fe0d930be919e9e4cbe4cbfd3c9",
          "dec93bc78f4a15a692820714f11118edc5af3a7c779ce59fd95cc3721a83187a",
          "4d595954f994319c57b5f6d57fea5f0bcc18024362ac8116992a080515bf9307",
          "48138a21768c2acf6deaf088400b7fce06543874baaf6c88504a99309b66c523",
          "d612da615a64a511087c345501b9b31dc58b476c4f1f53506ff2b7b7bd33b5e7",
          "e4b100c4f68acc86d1f34db46bb39e09ac7eaff3c05a9cb5842a960b3252cfb3",
          "b03795a6eb2562766ef8ffcebb4bdff1e99a66843d9cf62ecf2c4bbdcff96352",
          "973107b473e7b50a2f5f333ceed79477e1daaaee1d42b4e5d05e8ca74c777188",
          "8c14476fbf74ffb427fc751fee83a98f5de79af2e6286bf94d3815e49709efad",
          "39aab2f2cdbc749c6186002176e2bb64a4c198496baf02c7b4e969287fc7571f",
          "76367a248ee259e595df44c3e4773aaeef408921181491d3d57ea0fd87b8d0b6",
          "4377cc7fc478b923da7bf4187b924a7a48dbdb91fce9005fbdfcacaeff0e07f0",
          "8870e6db86ac5015681a4514e05353bf7d93f1e4a719f1af6a5b5ae438da08a0",
          "05e35f4fb98aa09e5bba65b3095bfb50d9ef2363ccf721dc89e48d944f69dc47",
          "404fac9cf24460996da90424a7d75c7d1213ca3c51e470c4425e82ae87f609d1",
          "e0b43b2f9f9999b246609743fb76feb36ed25b84ac4b4c89c385585695c3f614",
          "ba17dfbc39ee96ebedb7bbd97400ee0cc3fae908efb4bba36047b35b3af6d124",
          "5bb37d1acceaa065e29c8e0481a20cba13b6f7b6754470283bfa4ada93ca50c2",
          "27666b1546974a9545a67cafa3c593d00a216320d294df9366832d3e909b5e7c",
          "235ff45f86dddc83298bdddebe784ea0b4f0d9457ba9c3b27378ebc9da1a53ff",
          "d969a89852efe8119cfca63c2d138cbbbfa8bc020b18fb0375575ff5acad1e52",
          "f99604ae646bcbd116a5b82fda31b79d8827b261ad47baff7a4846a350455545",
          "05585031c7cd3ec0cae6b10f9e56c1eeee1a6775f96544c4a38591f8a3b0c4cc",
          "6cafacd4299081a02e65396417186da3c41c0d61cbe55808461deee3e166be61",
          "0a47eb669d9942b0c198fb116cc0f6bb8d2ca3ee6900cdaf7c7c1b6d696ba655",
          "f2ef2125ef0ee7664e05147e796179260dab917e73e6488c84ea7f3c2720be08",
          "f079e4ceb5d82bab82d806375eea87974619f0b14fada6d0b947256e820b9168",
          "eddac7dc63d550a77fe7e43a8aee8f1a87450ba9790adbd78dbd858f5b0ac31b",
          "38d7c65a7a42f6fc75e96c61917f127e4871f502d8bbe8ab06f18878365a989e",
          "cc1d51e1cb2b818d7b6bbbfdc4b894c42a87d67b204b5a769a1ff4782c1d3155",
          "0e0046f9fb99fe73bbf2253044c1e0ffc0f539ac2e9b9dbd62731edd7b89268a",
          "5c9191a91363f51d25f7740c63b7082dd67987d128ff30db6e34d51d2f6543e5",
          "f01ad9cab39aa05aff8df517d3c8a4869fac4d858c879b1a2b4b4b22b95eafaf",
          "3cd7a2125da6bc0bb6ca72e8e9af547ec9f97a0096ea86132238c48260279b9e",
          "8735c085ebec696500835e3cd1bd638a68a66a2112e9e0353740dcfc4af3381b",
          "172112cdc68e153871203d1953d543da3d73a4d0cfed07783fda1b7b246c57f2",
          "2f24e5e318bf9f8303d9bfebb73282dd96368c4f67ceb1a993261011402d5c4d",
          "ccdc2fd5f2d36f23e12541f4a851af8e7a327dbbda5d8832eea4ed20a898b7eb",
          "82cb7ee12cd9b661fe7ad4d9785949386e2edb31990045790e98eb869327e1d8",
          "f0b0f952e07f3781de9abbcae2541561af47c6a8f71252490f631a01172ee854",
          "11447d3127d01f1741d222ee986183cd127ce69f5218ef2c54bc5ff54b289267",
          "72d92bb771ae59f329ac3eb736131c5ec9631cb5ca4baeab3bf439085b979bf3",
          "133b7ddb1b84af0588be61f9b8b802b5872cd65aab25ee188265f5d86290481b",
          "04509ce6943df29d9c9baa796dbf1e3d3041514ca1991ddd6e56bc0e2932454d",
          "f2924a1616284b09960fc2c9afac515c892c05c23ff32b07f1f9c95c36a3122a",
          "38bf0a956b6a6d507af7ca9f6b9ff8c394ef04f4a51df54b7d70682da571f1b1",
          "cf66082edce8fef052799ff76cc8f70aaf5d9cef5a1cb3db51ad80dbc1b67540",
          "31c1ae15ac6fdd87d395a55c91058aafbda88c5f5f1855a4b30c64598e66da9b",
          "4de38c6510dbb72f97e9cc9b08765220d2aeda9fcccb8e7719bbde13efa3b6fa",
          "3006b2638c95264ef9e74084cc2594b930e24905c60cb267f3dbacd3702713ce",
          "bdc740b6202c36faf1915b513d78adf968217e6b377c060c2260a653f35f24cc",
          "f4af4f3fa9ff7c39fab58f959509d868161339585a8b997fe87293f10da47600",
          "6565a54a9a338897098eb91ca08036f0c0db63e3e00ac90ff0e82b5191098b38",
          "5cb4f223cf7a6cab3dcd7a13308524afe33ea82c67f4a6cb61f077fb68773e7d",
          "91a4d9acd5689cf59486507980cb7da5cf59982354a5ff66edd7f01516868005",
          "3b3513ada2bf5ab80439dca61c69dc52336eaf55600499a771872b4edb5f2f07",
          "b2720f70ffb922679f72d1b844e4773be75ea02ab3ae7f4fac433f6b0c7568e5",
          "233415d45ef788832df0f4885bb1a9cf68d33f9c28f50568cdfae0119460e983",
          "0b15d7a4b0d22b4eb12b8aecc9976f54f22ab309e843ff9a80d2c617848fe3e2",
          "ddd7fe54d879078025fc1c9c2fc2cba4f6e9a457bf552fc56ce5b3a1a97f15d8",
          "aa8f3f3a7d124c8640dc0e8bb1911445700cdb216af2e27e1d43d2b27de9b68f",
          "f78ea9ba472734f50e2b60d605ea9e0dc2d581732b8004a290aafb8bef3989ef",
          "fbb40aa7a338787301598d80af2c0263bb818bc99781431a5077a358be369d42",
          "ba05f47d637232f726545e657207cfd99e5dfab47d2b99a24ae23a1a652d3370",
          "7ca770cc4c3d243f055e2616a1abae82f1524166e6fb2af7c7d8d071b1610dcb",
          "5095cc84834855f3dbec2f1aa61f953f170ca6c12766c2bfb3cfe50cfc303fb5",
          "aaf78b2ffcd8429de0c74e9bb3285cdb987d5d5b5a8cf381b36e66a190ca2f83",
          "d4c24630161823c7c9c8e59aaf4fb200f427006adf3021998cc566d3e1049e1a",
          "8c44bc586d080d503bc57e821714967e6a3d61173f5049dd011cc2a84bfae1f0",
          "50eb5f3f2cbc0fd9d336a849c64e2aca9160d526f6235318c68653715bc2e73d",
          "a42c0248ff077b836770c68f67aa7e91fd78c750233224d7a1b0d8b8efc1d334",
          "1ab507be580836b26a61faa15713456864998663f8a1970d0c8c2f4aaeddc9b0",
          "d21ee188fcb5cedf819cad638db824a2d25dfe6a0ce6733df65ea1f2e3838f6e",
          "1e6585183603eaef57e71ec85ab03c07938e771c8dea268a30ac648be435b6df",
          "247fbdf33471c0b98781405ac00915ec99db860f30a036d4ce0d86c32ec6b9be",
          "c3244c2ae243c8fb4b57f1b225c6d0a5ddae108b1a5b2e3f4af5b76507032200",
          "b6dd1ddf95a59d2c6a46f31bb81151d5a1628532a0e9af8d462f28bcf895d7d2",
          "53dabd572cf2a7d6e1e3f34dcfe4f64b9024805e6bc6d6af839639e510ef6fe0",
          "1fd4752c3ed011d90714b2e8f32615c42a5ebd530ae0844148217e38f927d127",
          "cbf78cd0936a76e4e48a206c1b191d613a305f279c9fb01a6e83d203562c3487",
          "94c7770c6680d97650394138e283bc755c33836c1c7ac2c665620fbabc494d58",
          "16a3cafeec204d7f0e008bc8cc3e9e9b632ac2eb8e5030c2c85b009b4df57ba5",
          "39b2db04947d9824dad1db9c3c1406a4818c1172600b6916eb5ce44ec5a00fd6",
          "1aeb80c94140b76efee056234ee1298985dbbf2f4499f11b9a5455b176e532c9",
          "ce76a825580dd281634f597223e7b4403ef7d164b3d8d1c452e712573381604a",
          "004c99398f6e2662317a0296247b4cfdd5586565d89f9b9fd16c1fbf1bd2c7c1"
       >>,
       "200f33cfdd109a439d0edb684c2ab0320ae323c8a0aa3db9648380e10426d745721/01/2018{\"amount\":24}",
       1,
       <<
          "1e6c221081a8b09db6b2394d9bac02feaf80bb0d13689bbe13a31323e716c935",
          "1d9f6df86d2983ad52df6b143b958bb615ebdf600591e1f427855374b153c3fc",
          "ff7c7437dd1b536cf4816bd158455834bcaff17e7b5d9ae8df74d05a2cfc8b0f",
          "34091c612e0c23099cee7a64087dfcaf3599d18325f3cd75ea2e90ef7f334670",
          "cbd2e8c464908c3a5e2739e0a112eddcb367e8c815f54ec08affa061c328a055",
          "1f2e2320e0c1abe0802389d3fe3c351f3b665835cbb3ee7ff172c6f65674369f",
          "e85f32caa8158dd3e716ec8b715035dd3968697d4a68a578eb25f12decb301cc",
          "b029213d73e2e8a75b6e007960997722c41dbb9951699e4729a17c2ae4ca07a4",
          "eb3cbc9a9d84554d71bd5611eff52392a0097f64218053ba4e7b6a52478b9ca1",
          "6c7306e537d6aabd4b11dca6396fc2af4ea95610eebc6e3c546f0b4f526ef8da",
          "8e3783a73b1478383f48a1d7f1ff5e7a7a3d576ddbfa4bed6435187015e00c41",
          "d81706ae1399c918dd2f84e87b22692c3246298b06369a2079a406dfdb4040cd",
          "29749fc3e981c7b47f350542259168d5853d222a1a0fc9599b85074387d9025a",
          "04dc4ae31b25a100d4234ccaea23c4e70f6c125a12ef73172ebab4a47e33fd8e",
          "ec8649b74cf9e79408a942978a49404188bef2585daa1c776155a9244356b6ab",
          "3b700011b6ba40784d05fdde9f54688b653b60930c0b0a085344f98791e2b19b",
          "e8b4fe27479b5e76d6409fb604e04c84cd6f5a2742bd83ac9372c0e43655a496",
          "1c41fe9960c8605b778691d61dabf9f66da7f603dce51c4386d86d657d8bdb8e",
          "19cfb53dc987d75d0f370ad2b281b6f667c4558022b57a8643143092ddf05ab0",
          "04811b5e5e02b17839ec07014bcacec7179cdced4f4e7c6cd47156eedde66957",
          "9475384afe763bb1292a0e487ab9d6ac879271d67f660ee6c90edfff0b9c7d74",
          "ea534aded754069a9e49a3e81730ea57b662578cbd675ac0469005e05cc09ff6",
          "9d7807361765966006e89324f43f13ad5243168427985265168951bc60c24aaf",
          "fa26031df42a5756a9dba3e00f7b491c692ec42cd38977d8fb21dcdf0ab44893",
          "a552ce1f4bb2cbd3d483e14352f1376077d2a14c0489c7e7f4e4cac11533b2ca",
          "2b67860709e76cff76d61d9ed23fbd835709ebd4c1dc24dfd94a746d3a514b74",
          "2b3095e8035c3baa08a9f53dc4f0acc7b81f1997ffca1baf82561fd7a2ca09e5",
          "d08bf214146fc71d46d0318012c5738c4d9d45febe27222f2765a924a978e45b",
          "da806314439ec332d2178fc94019e9b601746777942139e28ebef362a581ea48",
          "4bae8af472794eba0fa42d80cb96ea1b0ebcfc534b042b15db98488250e4cc01",
          "df75822ab66c9df66dae248f98339438a0ad2a80d68531c4007524416f081751",
          "395417a6aed200f928794e4d15489cee914995f2de2549154890d89957a82ac0",
          "5e0c1b548ed6357fe5b74364b0094f9baf8e7aee300b991e16fb11ff31969221",
          "ea3e7c9657e55ac65767306094ab0d787504566697efaee073aeca6a2fe18e07",
          "8d46825982f0cc8a010c0651b4e92e92a0008a147b7c4eabe86560aa8660fbca",
          "df0f424b4440dd582b48a0d6158f78e026e43e27d1eda76d56e1cbf163955fe3",
          "37c85e9c0d1c3f2bb706ee4b3bb7218779b0af84245c516d78fcf2c51f0e329d",
          "f9d6572f2a9d58e5e8530775663e26a826d1262de0b55215dc30c77fe8cf291e",
          "6ed28ab2a7a8c7760d6d1b1738af68d8f74cdd68d4125b82ec83749a876d08e8",
          "9c307428602a4381be524b936d4fd042ec41dc2480218f0f593cb35406159a3b",
          "8f099870bf82b281df6f0699e30efaa798b827c009253a6ce8dba5b6075e2da1",
          "11d33fd1e31ebc5a5d93d32a28a308be2e6e79ed5325224929048d69be9d344c",
          "f88b662dc49497ca94a7f3096200cd24a6c8f6764f9d804221db3dcadc172980",
          "f37a1a8b7093660bbca1a89b97f2441e8a5a46f3d3c071183c75dfc82e50f9be",
          "f47650cfd9fd64011f51681846bfb66a73861ef78e8aeb4a31fba064a732ced2",
          "76d5576a0d7723e2c72bfb5e9d6d596582671636b74f9ef9b8b5fde6f28c7939",
          "3c40fed6eae1847c72972c45b84471f97dec5ab59b218e64ae50347e7a708850",
          "5429a823c83a9d83dfaeae7fde1f7befce30ad72370dbc7e668706a7bfe2017d",
          "079fb1e3fb641a8117cb61cf7aa65c8fcde3e45f7393db511103fd987611f02c",
          "64922c0e31e1f41d36cff5d41cd972d55f91bfb47e27cd88e683d84a1b0846f0",
          "f4019a5b1de195e209043e00b21eaeca774a976b1859a7240c056d8a12c34b88",
          "cbbbfae5e2bb3473d99ac4a6df01e3ffc756d355300aa4567eab65da6fc6bfe1",
          "b6e22cf3954bf0a10bbbd49ce8700d2171ff1085b2602e7c4631e7a72fee6c9a",
          "a30aa02bf04b840b00921ba0a24b0dc49cd862bda5cd8d6ad1519dc9c2f90611",
          "282069d4a64e531bc7b30777de1968d7d1ad384801e76ab40bc6999d32bc39e3",
          "91e316ef7bed1901f0bca05f6010dc11ff9599a50548ff6c3e01911b6a849b61",
          "8e8d236899c637e06213da285e6d97bedde74bebc59534fe19bbb47d28977096",
          "8afb4677cec1ebdb6b978bc87919100f7b14f8906c650544b2fbed2461948c2d",
          "0189ec17e1a0644e5d30a22d299e1d6997c1ce374888b4eb5719dfdd06b44462",
          "582883831d17a0ede58393509a561eb2aede10dc6cd490fc96e75495de3f8c3e",
          "bd745f2571b336547f4a2b1adbe0c597ca56bd763139b7d2f676b3e2e80f6417",
          "0f7790e0272869eb85cfdaf16b540149254a3d05e22b0280ee970a572a209261",
          "7261342ac809007efcbb08bfd9769271ba25efc543afa646cc2452b82a38a715",
          "b0668fbaeafb7ba37596f060ad868e0cb597ae7d8ba10536e6ee87ca0d84edac",
          "980c92a27b9e3a7710810371e9ba22af115cbfeec3c5331312997bd52c493346",
          "c47f717a51baae4a64e6a5d5a8237bdba7ea42407d84fb8a10e2dada9eab8612",
          "57a4bd7a0c15b88c595e65b9fcab19d0f72e0079565a4b5dc898bb6d1534312b",
          "7020c579b20eff75135622ff9f7fb6f8790aa43118d7c92091cd5b632d7dcbcb",
          "71112b19f92a4bc91654b3ad211c6e5a4dc2386e6de091da832273b8aec83d42",
          "8f28227f68b412aa0a55003585d295195e25bc8c563b0ce57deadd40e86ec8cf",
          "2f56f9fbfadb08017a6c386e3457d5b27116f6801272d4846b02d0fe217eed95",
          "f80e20538504b96df2fe79d23fef9609afef661ecc7daffc627491c8c37dc6aa",
          "85fff2f1303c4d79fdceb08246c0f16035f4308af4f5ea7e54dd950485a7b82b",
          "6591941f2c1e5e60fe3ec2f80f7e55969fec688374ed78ece4760dc7b4d6e642",
          "2886cc6b4fbe1cf62b65a9de9de2e3ddb4a54f4f117d5cc6511c2953ed3cf1fa",
          "5d9f901dc8adb0b28d59fa3c479e5436f810245dedda0afaffeecdc14afcca6d",
          "fe0ee57cba805d1b45a7b8f24010e9df2f109ea5e1b038284469712f0f3f3d3a",
          "0202532f4f47f5e9d2fc0ad3257257aa8c2fc8f76591de93451c9b38020c6af2",
          "56705a122f210eb4d500306f6d3fffe9f220e20a66a60ff125ab57965195d781",
          "2bc239cbddac064546f79b5a5a6adea9b5271d1290f69ef09dfa698d50ef0cd2",
          "647391f4f6786ca05bebc5938970509855a2b611e48d9f725ccc17093fe4a213",
          "20c32cadb8dd423c66ebe3b3047e6e6a9a831d3ffcb1d73c7c4c7552d07bfd85",
          "fe220ff635545ab90436d3913fdebe981ef15fc26f971c3b2b781f4699a775b6",
          "10ed562db6e066d5ba1396a83bcbd82be9234859d39fb596ee696509a4f3db00",
          "f44c41453724e382ddf46cf29e1b08bb0f05f6362388897a2015d44fd193e1ba",
          "dde264d812519a27fddcaa06cd5349c20285e00a2413bab7299837651adb4661",
          "28c2b5f4078c9a40300273b475335412c288e0ba6fcab4e3d68df66e0d4d5d94",
          "05069f3546626c6f04e4d4805e6f1103104bd7bd32b44bea986862caef03b4fb",
          "abf04ec14a7c50cfa41cee1a6834615c3bb967e43673b34d583870a05c82fe2b",
          "c39c2d9e44793470c3adac82ada271f31e08444c15979c16c32ff761add716a7",
          "29d63e086c85a5a9fcb2c98beb5b5c1a5f3c2329ff206d271434ca9a1de140c4",
          "67dd48d08ab0639b7d68dbf15491441e5afea21e7cfa5d7835d52a0912cc9572",
          "a9fb0421c463d7758b915038bc10b78cb12940647a09d9ffd5c0b9e973ff1081",
          "9274a0854ad64160b048d8b151b1f3ac98af845c83adf4f82b5413eea5eac139",
          "ae6aadb8615d3813e21f24b79a128afe4638b70e7dc4bc61f811884706038aab",
          "ac34590d86a2b84511077ff229cf87608a6666c2f254ccdfeb751a661670b92d",
          "5bfead47e09c4aaee61ef96f16b69525ab43cea5ccfb18b83599b8a7f90ab622",
          "2176f44614aceed93457b421be0b7465a96e6a791b45e74e9993612e3e5e0c1b",
          "19c06e1ba14616b8e1c9db93d9c6a58631f48c428fbb9ebac3a2959292b6a845",
          "dfedede4172228830fa0591b68aab317557fb70b3ffadea77c4f07c3f3e2aa02",
          "08183d6eade28395260ef551830c5be139af03aa86edb75e919de5893909a0ae",
          "1b289442e9600abaafd1fb3b0f999ccfb9e5e8d8ec76248360860ad1f8ebedaa",
          "45e6cd5b1786571fffcb6b275ffe85bc680905aa5ebc2791433338cfd32240ea",
          "0b9423b66a45d7a4ac051437302e5de2d482e11591b265c2e60813a586401db1",
          "fa1cfbc27b3e923c6366556ad1f0f547c1dda6f618d7778f8298ba03135d1ff9",
          "84596b63878913886b254be9b3e58740734eb35d4861f4d7e511b4dc09083963",
          "4367a400c7df4b1b01bfd690237192fee654f85af401763fd5280f9c1358c9d2",
          "1a853489ea31eec0fa9a6f484280cb69ca7cc734e8354b0c476f091993e38cfa",
          "521c1b44d88bf043812283a37a7ba71f55d5c684cd088092898d23c9ab8ae532",
          "eacf4c97126b0382a24051c38f140f8aaaa23d0bcdf72087dfc3b95bfa7f0eb0",
          "fbb71574528f4fdabdadb8fc48fc1f226da3573180bff8f23f9915b056d29086",
          "2a03e83bdcd62c803854c9aef55929257605fc91d7e01fa3ee6157ac655ba9e7",
          "bbf7382cc722e3350fb9f7a2d1e7efec636b16ee176cb92a9792df17d7f68447",
          "4042920582f0a3f9cfc76d2adbfb86cf8554ee2a5fbb2770bcb026a8fc12323c",
          "9b77407c3d773fdaa6221afe66171d1372d437cb50378cbca8e2f1e8fe54c1bb",
          "92a041cfcb4ed413e27b22d9640aff11763ba55783922634a363e71f8725bb85",
          "89800cc43e604f8ec8b173fe2773c96210c9d4c15a31cb8adff4796df4989216",
          "228bcb289d6fe4f90c6f9e6628e438c2dc37d1e8d3602159f78d7d079250d32e",
          "a8dab9f6013b29f8f7b644deade7b6d9a57ba7656bb739fae394072956f5f685",
          "2338bd59c9e71c6184201acc0cd6a3d1a4ece4e066da357adc49068f40fb96e5",
          "3ade8a39244d93712f9365e987a51c2077551e2418bb85e081e4c52d42ab4d71",
          "d55f524b27606b85e98b15178c514be87969631d047cae19bbf2e5212e7d1980",
          "ac6998c34d242379dbe350b8512047b5e43a663dc53a326375208ec87837f649",
          "c6234b69f080a94277ebfe2e0b29895cf9482a9f28faa6fd6692749dd7cb4126",
          "e0a8db88aba4945122a729b62e478c8fcbc32492bc3ea36c3146d49c046c553f",
          "988c38a7873431b7aae3a98ce8a2f02c080e1610a760b7bb32ac45885bf814f2",
          "f00f8b06a0ea5cc4158a4808a0a8547758b59bbce120a0fe258f2bd5cf70826a",
          "3d2576858ebff4a359520ced5b92252c00059bfa12a58c59f228b7104b4cf49d",
          "3ecd93e1a84bcdf1b2de1902431e035fb6b33f9da03ee04945b01e44f0f3b0e1",
          "b3252640175be8935a5c8f12828b5eeeec726e708345fea6b6a05d0a7fa88e23",
          "20a38a7d190301918adc1b4e3b7e1cfa75444f94fd5218d557c533edd50be4cf",
          "3769ae0c13d38bb81a1a462c33783c8c88db9ff08f9e8162ace4b445710345f7",
          "3494990ee599bcf564c5b8765283275804f71afc6339e70833d2e7d32dc8a81a",
          "d1c5ef83f84ac1ff12394151d5d7faa4914a90ff0722f5c1a241c428511b8083",
          "9342cc8aa5c905c2cee57884164498eeab9fd928ad4cac456e7d8474d005c88d",
          "07a54e7bdfc7ca09b3549ca1d4ac913fec526be463c64703d0af9e5ac8d0ed23",
          "45db6c1d2dd12b7ffd6425ea44b50774ef47905690223e3a9010475a30d1738c",
          "89c1f163756985fc42065def122940f2326492eaa698c8a3a549f1d892ceec3d",
          "50f41d4dc3ceb6bee8adeed20c3ce3d2d7e7cd53aa599bc7d336dae1d2dce1d7",
          "c102041a2f9753335ed680369a8a6c2037569d65714b1634818406bc9fcd19ca",
          "69312f08fa66854a1a61f3a083fec57ef2463586232870b89c355d6534e6422c",
          "b11bd436586d838a1ef837016dfdde4b0cd7ca75f74559da04c06144ec977d99",
          "cd34f6b2c3040587cd5b5a5e74ad01324f2a132bd7e68a6b6417fd9948d41684",
          "32b5610d08a1fb8cf9ea093d50013797c86dc1963c77aa2c62783d01845c747d",
          "e574ca66ae9144bf34a98b020efa90b67568c722f87ef7deba82fce857ed0c10",
          "0e76f950329826a966939ee0d62fe598fac397497a1d9966b1d582c632e4642c",
          "cc0bc2a2acef0fb4bfeec57f05652b7c8c95955cb6c88babe0dbbee6f25bb896",
          "527f7ac4488e710e0a8a0aa152317695c5aa2783bb7cebf76c07826e10236ecd",
          "239e4f33283b4e8c6a23bff57272479b75dcbb2068689bb1365675bbd35b9a43",
          "45ac3723d21f7abf602636f9dd5ef7a1249ed2de8b01be1c8bcc5b86e5080902",
          "ccb1e2ff02f2ea23511eb55512bf9759c6f53fcacc183da49ed593bf7a002db0",
          "bdeb03577b68cc7c8f19f61095c44c16bf525697ccbc566077a78e1ee4675167",
          "73aedf3b838507273f38cf6624093d25424dfa4f06b8596f0e5bc3daf9696550",
          "77481260326d8dc67816f3136731ffe9658b5d2dc596cb73011c5f3fc3ee62e5",
          "d90ed107e7121844ffcde0f9d834a89794face7077e230230fd90325660114fb",
          "5da0832f5b7b198f8c1e4f799296cc7ad375211e5558dfe8c559f25e6c025135",
          "9697ef36c5e5509ae6332374b66ecc64a5a851a6208850d36a895078732e5ec4",
          "7897a9a9a7ff4132fc1d821137604339fe4bdbc306212d0c1eacec1b804f417e",
          "67b9db3f94bca824566ae527a6d8be42a7212f2b5c44aba1626491cea84233f0",
          "677e49fc5e2cb85d87239f9e97a596367162b640f1984686bb33aa1ef93fe412",
          "1be57b5f0252029c7d6d62975a9906389afa499811b1c70395ef673eb660c90e",
          "fef6ab22d1776658305db0129ff2089d64c3dee190de9f30cbafa1ad61fbf868",
          "1e114341a611039abb4e1c43536dc16e2a0c694a7fdbe7585c4b75555b9c32a0",
          "e42fa3524009f661c8466979a1ef00adf200090ff954c615432562f06d3e0095",
          "8a4efac5ba11551900451d683d771b88b35259982ba935ab12d6f070e7132cf7",
          "55d9f574abb2c1a8a4ee003d374f402b0d31b0798136ed15579bdf9073d9c327",
          "c32674f69078b042bb95a5e8fe7c8513bf56b41432c087a3b8164395ff93424b",
          "7a71ee5f2925f9555c43d43dc122721c7ac0bf310f992e4235af0deb7009e198",
          "ffe45871ac6f2a771a82ecb3bf782a56e615bfa4ee4dca1fb115b7808b13a92f",
          "8fa0eb9decbd35813287d0d504e354ca4404f688d498d4827cefe476d6bc02be",
          "36729c6891108395c2e220a60111b58527d984801115398baa756a99e9b0393e",
          "345344fc1ae22cbae1e90704ad05ad90e5542453a9cea309b41fc0e477f54f31",
          "c8777c341bac22de38245de233cf483f666bd6653c5d61311010f769518d3951",
          "b61895cf6a8e72f69c41b11fe08c1fdde75b1fc6e8df060d94fd0907d0d5ea85",
          "0567bb26e190acd9fbfc467d75f8af88fefe43473dfeb8045837fddcf5ff99bd",
          "dad857708825932ad93d6750fd7f51a8aed02943c3cd1b2aef80b43782d1de4d",
          "f4ba998178980390666d156708ebb5f50d3fd41348e0d7b47c954762deced062",
          "5e54f3059226d78a64f2d49cc6765e68664f87eb9394e24b871f842a622dd3d3",
          "8a0758155a3d84161dcfa87dee674cd2e7e8a1cd04ab83d9fa4cd5dc9e131ce2",
          "7eec66798a9c9361efe88fb143a3f8c0cd7081fba8c9f9603a1da4ed6a987ed1",
          "f9168ee45d863968515444dbc89ac0c351b012820037eef97d407c1c4c1e4553",
          "fa0cc4735c0bd07266ddddafbf2644c89cbda52e4b26569dabaef7563e1c6553",
          "de78365fbf0b860c658398b9d18621e125b8da48d52e28338d9b65e3cbabf652",
          "3560b84bc532477026f56b898634146ca20498613ff6d6a428aff7d10369a3d8",
          "f4df24d45747c834a87a7f180425149dc068f7a9b8e9058bf57b9cb7672accc7",
          "170082a7d086b9a1968d93b3069920c04d008ccb7e6dcdd9bfe5e2686f567ff5",
          "5dd2d6a61a5ead6e7f75d5ab896faabe7fbc0c1bbc69cea658dcd646635fd3a3",
          "0f00f82994f74cb751ee6063e117937a1e80830282a72b3bd537797a507b928e",
          "353c6b57343e56b0d6ad0c42595c199edd22067cd255d0013fedd390f3a2e999",
          "0b5044f64ed31fd4225b18f278fee3c3504ff15c79938c176c3d4a594ee50023",
          "87de444bde84f039f1ddb929609c2511265cf48135aa437fdf3a81061f114b0d",
          "17cf225fed030d17997b8ac57029c5ee7652f554006a47f8aeafcab308bcda08",
          "e5234479deef465f513a24041e7e51226fcb3bef4e53b7bdd0d164ad35a50574",
          "e18e6533f5448336a67d1844182a69a0962795d9eacc52e40b2d281208edab19",
          "ac0323036fb6e30eb798eac27672b4fd8da2eae4332f4fbede5a6c5a83e2cefb",
          "14f6af4013fd955adaf37c43914669a5c4cfbb0b50711c0c0dc63d644a4bf8bf",
          "359ac6f7eceaa1173f6b2b59cdc56421599e9412dadc51e0d59fc7281c5f5614",
          "e23cac5312464787566970f082203bdbbbb45e40044d4130b6b97930bfc96d65",
          "8c60e6d366057b797cc826868950cf4561f6bd0b7dc6fb954f0ed0c28cad1a39",
          "62324de5fd490d5ef4a6a4627bf2dd73c7f3bc0fe2461ce1f67640bbaad4e2df",
          "28943b85bc126fd8cf1e86003c741ddc8b04867c078699d6aa5346ed8cf4a709",
          "9563f12a8af9e94ad5a6257fc938dd4762b603dba2e8e17cfabec0b814b608f1",
          "704504dac3f1d2650a0fc90d39e39e7b5bd5ad31348e83062c4db3ac549a2599",
          "028d75ea20d268ddb8cab04355733be79eff4b94ce3dbdfe8671e0b502cafe3e",
          "6a045497444fc10d22b0338c8df9cf51a81a03bb18b615c0650842c619dcd1f3",
          "2c3ed2297c527109164edd7dd55566bfdb1e83d02362cc5340992b7810ed2fd3",
          "213b461e5f29e9a8a013679435ced9b35123257dce5ec583ab5caf8dce607443",
          "0cc23b5e2595d502fb4bfef75dcf2189b4a21d3dee4526274e1ef3239150eacb",
          "a0bd3de6837df8c6ec3130df4f8c51d0a64f0051443d8a880803e9a9ae41a721",
          "4c70b7f4042ba5461c0f4c629baffa40b877204284428b9b847060a27f069bd5",
          "d64be07ff2735186e94014a44be106b793838f3988b2dc9ccb168323482c2d93",
          "479dfa9eb224281254673061785b22b6496e33ecb164783b1724109f44551ba8",
          "26d2042c7666676758d2dae78c4a58ea66fd047292cc52c5b850f8fb3ec25517",
          "5c66c2ed92f31a5f63d5670652ee9f4aca9e8eef4f9649f9cf1e2a83ae16855b",
          "fa75665c53916f5b248aee9b62c479f396161c7aae86a9e7b838879d1a36d8bc",
          "d81e04a82642a4422bfcd81285d6163ea08d63cbfac447c4ad9e09bf6749bd8e",
          "b0fe3272b7277986e5770e590cd546fba8d7a378e5c17b479ab3b922bc112796",
          "17c448f5a442997a2eba32f84efbfd27c94d5eb51229ef68ec40de99bf445a91",
          "f7669c7f1d6cb2924f64757cba233d6811d78d842b25096798da1e750d0b59e7",
          "a7583a8081bf0b9e528e5f06f5c7f8b71e4e93b1133dd0a51966f4648e085e1c",
          "534ae85d1d2648d124a41fdbe6f4958b71f2e85dd22e874ebe485f5afad31e85",
          "e847a2ecab00ed4952411b4b17a1a00050194b8f3062424eb38d33bd11fe12b4",
          "3e8b7fd67aae7e5bb9a46fcd2a4d2290ae5395918cba50aef8a34c18257583fe",
          "e070774186e9715e6dd3a434c4769159e718a985dc517bdc5c0ed0a83a729ecf",
          "7f997348bca41558e65145e2fc9da9b9fc6268b341dc72c3f51da8ac950c2832",
          "763b4bef36f2baf6b0a3e07738733e4a4de526504aba0211aaf1b74aa64a3c10",
          "1cf0ea550950a0d4688e38618111cac21fc0381ce9f779fdad0497d85510f48d",
          "1065017356924afe838dd4b90cb31f2dd0b857783beb5c5be47ee90a59cf677e",
          "5b35317ed2b7ceeeb6b9977be4e5e9c1d9a91584c99fb4f8e28e794738320fcc",
          "f75710382328b430eb95fe81dba7b00444245b222f84ad1cb9e941ae2742c9db",
          "cc997f89ed028b675e7d0a04e3c6cc73b567acb92ea3ccfba73b8794f052a190",
          "73125d44812f89a2d8bc981f799643fcd5f7690079a97ebd98c2742e9a932bbe",
          "714a90ef96d580e505857ebff8814839c069c6f2d1476d49fd4fbd3413b704bb",
          "331d8f96bb3213dbb6d69dc2e41558f552094f932af32e145aebaeee1214d785",
          "bcf5e76269f1a7d8f833337e5f628b4938f9839a1855769eaf3ecd5df654eb53",
          "30858d46fc2137dc5625500a3a4a42ce58ac412f5fe53d745f2ea969ed283a9b",
          "fe1915364c32f40953f0d4e37500e67807eb4049f65be4cf563de69e55eddbf2",
          "9f4c3addb24ed9c6582b43cda116cffcb1a24872361babb6742d096b6db3e67c",
          "c2daf07d44c156d2dbdc7c24fc98a99cb472449213845c1a7e811828851e2acb",
          "5544b6bf81ffd17eb70754264be871221a928081eb2db5f8799a07566d0dc6a3",
          "e49aeb95967c30edaac5d4a4d3bda8cd74dd856f7b719a8db48d0e00c04669d9",
          "a1eb8382a9b8995c85d06de903ef6b94f95b7622dabdf27f8e81b62a7257e59d",
          "cf9c80f802cbb07c4bb17cfae3244304824169f9f9e06eadbe402ea73050d338",
          "fc6265173e9ec28c7357f8d606839ae98ba553feb775ae5714ec6ad1cba16a59",
          "49b22632167183e9ff565706e679562eac2453363381a6cd7a39a0458e8dbd83",
          "c446be8ad2c2af3f6493d3b51c6a720b6b2046a34b32a3f69e6283b607003c54",
          "c2ed8611513cbf4b05355897f5343c407a1ffb5f9548215247ca350b7498262e",
          "40223cb001e9f8f6c938df4ae9d79bdc43d4e732eb1e7063b1b14cc588938bac",
          "8b9f63f02af0c71d73abb5615a42e2743b759a8f53fca7ab63a1c6210651d799",
          "0be7af2e31d0be315125c87b222453341876b2e2704321f7b3a20805a7e8ca18",
          "a1c832df08bd0d00328b7de3a1923d351e43d43d935f3921fa950ac9e7a41b4f",
          "e2379687048b30c2b2d6944adb74e25188592333debb987bad6ff3b4b20fa8f0",
          "abee0822b69a4e375aae4a649d090a51c7fb176c1aaf5ceacbaa0a98cecb85fb",
          "7fb570a8db2903283dba16ee7cd052931c3ec18ef942247418b2409faaea4ec4",
          "a9a9a55dcd739091acda9f7c56d78f9fffdbc07a93178dd347538f593e68d9f1",
          "3045af8d66b4944d885300c6f8b9124db8722b58dec1ec31969a7d02913ed7f9",
          "54932c5838cc76c095b369a344d37b84faa06b6e16a1d83f4571032050979be3",
          "042b38f541ee9fde131367c8dfd15b5fca0e9a80c27ac8779b7dfecc8480f6ba",
          "7488795b556dde2aac3ac5f832a10493d4376f50a33cb2493bdac0d5609b75e8",
          "9e963cb246db6f67c1a977412a39ec299b5a674a984f73428d2b462c7e9d1285",
          "e823b985b79e52654556e281756471a23f3b24d67e8efee805be331944c6368f",
          "edf8018d1dced06d2a365da28e08b243ff18fa7cbdf4645eb120ea5bcabdfaad",
          "8877d41a14dc1cf995978cd0ef089c26c744264d2613d54ce9ca74e71d72420c",
          "8301082243ad50de83310b5d18d700b623188cadcc9cc2d81055835d88154d16",
          "916dad19ec8a7da2ce6f9f1f9c846163e740ef4c25e1138fd5ceeb4bdf7c84ec",
          "bc5fad1b3e95dd374283d531c143852230c2c559bb0776b7df51a32d0aa46c65",
          "c1abffe195ea8c4a7895a52df8f015245f6c3b499faef53b07868c85c176be90",
          "8b4d929890026c1e31afdaec5c30a67eb5c6b12447e9277f380967349417e3fc",
          "ce276e96b86188f61bb6c8547ecd6facf2ba678f425a8cb42842fcf255abb26f",
          "7761150416f324df2df59baffee42c1157cea2dfd65eb99ebae5d9b6e07aa875",
          "f59bc9c8ef3f422deea284f8e50e91c5aa005f517281092dbcb09678dd3d38bd",
          "f0aac20e1e129e4bf2ad5b26dccba5fd928752a635e5c00fdfe5b4f5357375ba",
          "44c3a33e7e9b24fe47b60de571c3600892a8ae496b1d5f30bb3097364a7a073b",
          "246acb3febdc71d23eb220dae173ba0495085f51ee89aa6a2df7de14edc9d8a7",
          "386316261268ea4e2301ca3c31c6c31f85fd5978f90ec0bf8fc662274b6f4d15",
          "08cfd4f028c87365eb74e4524c73ce77251661108befa274d24ba082cc736f6d",
          "4a34d6b18e73acf1ef0b999cc8315c6c5f4a2da33c8ec576fc7cdbbe6a908939",
          "c5526dc8a0320c2d90604cca0a981d51c476035cc5cc0eb921fe095b3f2a036d",
          "deef15299a81f2052bc9f1f962ecabe374189efe446df8fbf1cdb9b51af16556",
          "9795c16e07988e11720bf97a59ec78bfd4e3591f58e1706e440dd1a49c5f05bb",
          "ea4d347e27f2d6c79b4e5b694a06e34af2a6682c4791c7e57b4f3c6c7f9655b9",
          "2c5b7c441778673315ad5ac6caa559dd248737a016f43e75644fbef39fbe5c9d",
          "40aabfe2714597eb29de1ef4a57cd26b96b99fe610c18177b2287fe25f2abf0f",
          "28ee053e1590df7972ff704f608c80d8912a7eb2bf0de8f4a9b277c77673cdba",
          "31efbf7fc1b35b33dfbdb34292fd4625806ee44c7b92f31970da4fbb9d543d87",
          "f2d8548983a4d044bd258b3c00bf42eed745710527fe27a588ecd57f412b8f7d",
          "4404d6b311de8a044e701a06e92527d435c017c5428481e13c82da67f34a9c3f",
          "cb14660c4fd469dfd42a81c213f9c66f0f73a16681bdbe6fdb40bf0d382eb21d",
          "e4bb6b8724c1e5d3ef08966675cd933514bf9bb13a92970ce68f2eb10254b0aa",
          "3e70ffdf6e4f636608a6de0aa1fa2e98b12245a2106fcfd380c1917c69669e82",
          "aaf646e9a71376be39aad4626ff3be4a640a859edd91ef036760e5292ae447af",
          "6d8915e474f16fee09c1c0a4492ca1389d27326a4dbfb63e768777202d95f68c",
          "e4b531f35c9d66fed5acb9cc2841d20378221b8b0e8a5812c4fa2ca0763ebab3",
          "773f721273b01c186ed44d89b4a03257512f818072066557337732fa7cc81a06",
          "89e5e339d4a03f83f29c5722f7fa1b7d87d5b1a0e640251b605c20629441c78c",
          "6a5f82b63ed5efd22b075f7c8d869d3a09360aa23ca2841448f1cb99a3897f3d",
          "254a8ffa7550bc29b58c662fb71dc0b359ed0357187c99c7965dcb2d7da99e18",
          "39810e282b65f456035fd72ce47ab849fc83490a9c9bcca39c0703ddf99d3291",
          "b8bae51fbde23b4c68fcd25ec5f3d8ae8f2158dfb63c63210b32240c06180ae1",
          "8865ce5919e2607642ba2cd3785ac17486dc31ffe30ac2c7678365be160a9a29",
          "bace8d753be94278f8842ac8aa4addff78ab27716dc7f38473eb8100a0be3725",
          "58d545373b2f740e062a8d243af4573fb0a3d2a0c4602ad96bb785ff7b74daee",
          "a59a1bc43dd06a0c9ffa72d5c93971c16067da20ebf116b8de3f615a12672e3b",
          "46afe8ff926f13e652ec6e006ba3bb2f32b7618b2e95d02c98c770adec5bafd2",
          "0adf7524d3cf11bf9b1d7b73850a760575b0492743bac59f4ce813a93e1826e3",
          "dc7d848007ff97bf9d08784ed6d0c7f5b9241031f3cc63af56aa6a2359c7d65a",
          "fcb191c74e8b60a1dc9c5676ccf9380b97ee89486b75a43de8e4f14ce8e1f54a",
          "30dc0cd6191b3f706f43052b48f908e6af6650dc021f23e87270ab5278e422d8",
          "acce036a954bbcd309aa53d233c6b1d0ca26f9e357eb605bada3dfe1c1f86dfe",
          "ba4ba5237736771e290107439f96b7010084ecc1cb95c07e6b72ec0da1deb4c9",
          "f8c0127668db6ec8c67b5bc73898d9cae825d3a6117aa9cf68b45de98b35d1dd",
          "223c7211a0c3031f2b03b40aa18287b70d5260e354c94dcfa1d5a8bf709f60cd",
          "8be5598a30131ab5e1d114e3c41b257873389265073b8cffd1801f24350da001",
          "fd85afce2a83b802f1401cc7149b7c1d4fee22fa7ea9397f202829702e36a4d9",
          "5df9be537ec8cebf67d7d1000ef9648cb8c78d3f1f8f4f6cb4f1650cc0806e37",
          "41fde8ba929721522dc85bf5a5e475bd1912d1f9fc4abc152b8d4c51aa04680d",
          "4a80767ecf76acc246efc9d9cf910014a3a4b9a03cd62a96514698916df82944",
          "eb6d4fd00b04fa01aeeba7bebc67b7bc95295b45fe76ab330a6ef5ac7b593fee",
          "3f541d916aaebb2f012ce9f810c59884b8dbef96b5f2f615ff4b00b3dc660552",
          "84caabe6b921d789dea6bd1eda87182cdbccca30e28959baa4adb4fe1ac701fd",
          "6d189eabeedb7635184d1b681dd7491e11c993a52c9597b2b0fe5834c25759a8",
          "33e1dab6a6b516160317a688d347a1d888dd103d7da281ab7d55f0d161863318",
          "6053e8e2baa0ca08d310f8749004dd7e6155a20198dff1f0a0e8cca5ea3d152b",
          "00cb3361fca3c5ae41836f9a1f0d214383d6526e00951d151db895272695ff75"
       >>,
       "20cce1a82f0caffe9d9e59d6314697e92eb230fc93a850cfe657a89b9ad9bf87f21/01/2018{\"amount\":24}",
       1,
       <<
          "5c6331b999ae2d28e0c6a775fdc23f4378dce6f217ac3d2fa91eb119383395d7",
          "1a6f06cccc5a903beea07aed2fe5ed360f0e12a6d888b2d493cefbb96f01aa76",
          "69a4377854f794a8186751c60fc8e35e1aaefb86ab853fbbab1f5ded486ecaab",
          "b18875981f9b2dfd12957a7b3f79a630eec5e984947bbf7e0ae24113b0ec85ff",
          "750125de8c22cfdb0eead19f642c4c6c6057e26b99b1bdd4d6a487448dee521f",
          "c8f49373c4abbc13f83de8695cc7296365942199ac28b02c72009673a36dc0f5",
          "8898cb16d6f7821e1fb73d1df95a46db26edb97d3691e563bf29381cc4a6f03f",
          "90b6457b3685c036178134f54f0cf1969509f307a31a7f14086e1b35e3afc696",
          "28778beb72cdd884bfe27206a881950f727e92e7dcc4bff8c7f84c047556785a",
          "846c457552d61eb86f8c0ed699154fa124134de73bbd1dd99451f40c54570221",
          "c35bcb036a3aafc6cc8c853ece15394742e12360fe452abed001f3333ffac22e",
          "8b08acc2daf2f1f53125dfe40486e4778cf9b5ea57289bef73e450b5c471ae0b",
          "dfef78c3fa73b6e80f31f376fcba3ac2a0f949372dfe651976157c44d7b36f24",
          "318a00a93ff47a058129b649e4f6fd32194b84e761b8420ec3ead855777166a5",
          "8ee379fdac90ac9829780de1c54e5ae417577f9c7f62b1043daf465e5f836f07",
          "294640b111b8d5277f191376f3682f6d57713b285960cd98a86c7bc8b9f0e71a",
          "dfac13a2d913c7c227ba0c35b462b85ad8b9470c745f0ff7bb8551444ef421c4",
          "90f27d5cb7f751866289717e14f9c8d092e6768c8d5834c5c814f8d14450a347",
          "141d3dbd4fdeea522f98b13289959af20eb7ae96010a36dbb6e83e80908f3342",
          "5d1a4666eb600658ab79b92ac213019cbd4714bcf729dd87556102a2dd8453f0",
          "74f9bc2eafd5715c1ce14c8deb2cb38f26c15727fd48a02701de78f83a6962ac",
          "2dcce19b26e5c20fa0948fe260d85602a709a7dd741ca7c953f049434b0aba2f",
          "e9a35616474c2e618071403888d5d95cef4e217227b5c07c702acdce28811c8a",
          "d8510a8954966678d904823958278b125523db18dd9da11a9c4dcd3356fa4a63",
          "e94b1be91e9212138394d2a61f7e8227c8eb29ddb0d7c2942bca63fe8ccef4e1",
          "af38363746c08737b41021db412508faa9e51ed5b0859f4eb42013241040462e",
          "23a73d8af91f42ce8b5a1e0d3634843cfd9dd0d134634f081dc336ebfe4de250",
          "bb220fd72273f887b3a51b50da9d1f74bb9f879a61a605bd283efe14f019e30e",
          "f04f6050487d892d3ad8714de2fc163c30ab86c61c038ea9550a002a2400574c",
          "a4eeabf89a4fdd291db6c226376d2cb2218259f00b48cc26618572ce0f078a0b",
          "bc61ff674ee21018e9068252aa1b87a68fadb3545e06da65b483e22e1fa3e2d3",
          "5ac469cb87422f8a6dfc452d92aebb4c8a84a3aa032f487a752c3ae6c733bd8d",
          "1b9cc6481f87c80164479c819e0f2aca529ebfa7091fec1ed0518add8927bf33",
          "c168d85ede96471e76ba01a83b79217c92621f28a3fb01f5ff814985b89289a0",
          "1cf2cda2afa65b178755a515173a6dccdd6a0fda3e21252c8cd30fac368deaac",
          "fef158bb083f1d0665a977617bf21cc17bef90409ba5d9598ae5f65c465589d2",
          "461d1c11c90d4f8fb75861ca50f2089f9667df5885360ac6bb3a8cedb1ecf13a",
          "5035919ffeb269084f252d9d30759b60b4b8a06cf1726862b1f5b7e30b318639",
          "f620dee609bd20f9f311505770f88fd114ce70a088d3bcc130b6cf9f90f27d8d",
          "f96e5f1a12da5601ed6fc221f8fe405b4ce10d4f5ca0756cf3d2185010b0c779",
          "17a90dbfe3c78a25800c7532b14fc010c6a7d547e159b42fa22563d394fff7be",
          "bdf2ad1995dff526f96603fc170750236da171ccbfd4cb4ef02a64d551e6cf0b",
          "9ed44142c0e95d99c4666006c2105c85ac07a76524dea09e00caf8f11092b6d6",
          "9717a8ba700d4fb369ec6e001e040de52bc230c890a088df713bcc21ac292e16",
          "8394511bf445df31124171a5bd3d20527c0cc8d2abc0d4d9b1117bd8f1d873cf",
          "76e7ce1d62fb0d09aa0826e2dcd736446f844c98a594024fa999f2babb4a565c",
          "4a0d10ae6012d2ecc9151a2c43bb9f7189fd6743dbf4e95dc65cf09dd76544e8",
          "4a0ffdd66dcb9f7cc7c7668671b259bc0075956f63cb3b7362206ca514cb246a",
          "6b5cc801755718dd788b50f777ffe67ca63dc54cfb4c09e9a8bac3d0b1323eaa",
          "96db94254296b26697c4e133d1e9e3ed7c9945f52c35a58834c0d0d6ade0c54e",
          "8160e83564a70e86b995c4ee9bb384315026db535999db949ade2ee2fed18964",
          "4a120e381aeaecb91fa359e7b42a53afdea116c32d5c2f6b3300d94e6ca2821b",
          "5f8b0b49ee18becbf694e051d2f26ec18bff58a1f2ad703194bd3b56b83e6eb0",
          "e9c08d94add7d3ced335c3267bdc332a1d3f5cf65a48fd5a242ed46b9348aa73",
          "469a4a53cc3602f16d19d6d18e815e6940750ec74654caec854fe1fe3177d1f3",
          "9f625d28f78605a55deac4632f55f77a00554403568c985aee721a8992f6d018",
          "647144ad88acf49c37fa542767e32342aa97d564372df973c3ce5a9508c68f4b",
          "da3159d0b280144c20d0e9b5239d9f49f9085014a5f91095e2b517160a2abf17",
          "a948356ec7fd32d389d3bacb7e7a51cfe721300b9cc38f1038c3a49777870dc3",
          "e93c9f67ffbb98b9b58c17ab6c0b11a25717bcb3f8139b337b8e37cdec1e84ed",
          "4d101d5ea046f1c5a7e952cd4af749935bcbf8a54e4f2f62f24f18884c1d179e",
          "31fe666ab54fa81fb69c610b82eeeb69bff95979a6660aa032330bce9bef30da",
          "e087ab4d2ad3e1161e5822baf753f8833465ef0f281f6b40bde1677630c5e7ce",
          "0bc49e808cae90e52a4d70f80a855185449115def1dd27cd5757850cfbb9d6f7"
       >>,
       "20f1eb45fa3ace15199cd79a0a14b10a227096af8828b756a868616c0f68c27c321/01/2018{\"amount\":24}",
       1,
       <<
          "bc60cafaba03008db1e9a26566ab9bdc62367ec1b830e81d3f1c9a454e8837ac",
          "583101cdd3dfbaad2d25ee30bfaeb0ff9b2a58621d5031f022c0351b59c73411",
          "745030e0fad60c3da731b25b01a2e5359dad81124bae54765dc647091dfec554",
          "555634c168f2c22d009122fda63c2ae66b447ccdcb157cc318bca64965f468a9",
          "fcd60a6db2b9ea2a2496f927d9399c6ea1a9db5634062291ed274cb7297fcd68",
          "de3776fbf256006822cb52ccc4ca347c25c7e713e7feb02a699a835149609223",
          "058b4f4352d6d1779e82d3dff4cbb6059861549310b76f9788e9f13d106b4a22"
       >>,
       "20fb52fb1d73028bac4795eb63b8c9f29c6156fe6cdd89f15c228eacc2f0b6add21/01/2018{\"amount\":24}",
       1,
       <<
          "1b65064fe9c98a16469bfe8fd68a705d9771e619f8008bc4c25fe163e39e20fa",
          "3dc20adf92e3f3d59fc1a6193bb5bfd5559a5998fb4f67f3679f9c19bfd82204",
          "75348877bd3c056f4f4b9ecdeec1d0abbb26dd22e530f3ac6114bbb8acbd51fb",
          "931648af3df12a6aee3f9731bc2e1540dfdc0bf14ebdd085e131960283661dfb",
          "fe7672a7f37cb10cb27b742579e3a19f4a90d6abcadacc342e450d384004453c",
          "e131309f36fc2038d2db9f33a8201e66a4acb8b516961a7286890034d1b5e87c",
          "1a9a20601f21ffabad2c68f7cb5570755da2c3c9a17b53f54d43fac24e011a6b",
          "f0c0eee82655a7b9468067ad24bd630186fba397933812e1b771847a8e47a043",
          "8e801fbc048c10dc353badb3f99c85c107dbbf4618a5a6b8ea40d24fcaad62b9",
          "9e446eac24e9cf5d32d87277a47923143ff49231a3edda7e10797834999a73d6",
          "1c3bdfef256a16b803d2630a6bb420e4109f05862ef8b527c7b6f759552214fc",
          "571c5a63ce2ad258d3591a35f77b8dccdfc25ff91040a9c4e4a2e84090b74dc2",
          "5c817cdf1b963efc78b8d8e0fdc04fb4a17a0f28e5bda5a1a8ce05fc623a11a6",
          "8a32853831656fb1a6966ff851e267b1b70dfe7d8e36bd08cf6039b96938d092",
          "5bb8875dcefe13ae2eaf7a944c59aae3d121d17391bbabe0402728f72120adcf",
          "d0530923716872083dd682100a1d24ea095b4a5d3ddb9dc2a4fad2031bdb3c85",
          "cb4ee873cc4082879096eb73db5597e3833328b2b37416b27f9c2863f711fccc",
          "0ab31a1a5bc24e0911320a209da3aba714764b1267c91e7583c936ee84734ee8"
       >>,
       "2b584e4c01f1225d68276ff7ea0e2d07326b3a1bb4bc98426a77b3ea195896fc221/01/2018{\"amount\":24}",
       1,
       <<
          "cbab7d9132946885c73a9869f15b623e45fc05b714b60bf98d79eaf0a6b2cd57",
          "a70a3fe6f28df0787069a2b5fdc0f423cd4b0864be3d05caacbeb754aac9cfc3",
          "55a57aa25419cba8536d8872656cf21085f7afb5a4725573cfa5b81ee77c253f",
          "ad5a8b3b82294a7a73e54036d62484de07e6dc7ca43f84330a24737bf2dff2f6",
          "0fb52fb1d73028bac4795eb63b8c9f29c6156fe6cdd89f15c228eacc2f0b6add",
          "fbe4b645a87367e59e8b1e489cbed036d4c70ea4c6c98bbb3d6a4630eb9e14a0",
          "4e4c5026be3c55770c0470042f28920e141247b94318262f058b7ad2eeae35b7",
          "749da29c2ae694959ce2323c83f21b3bfcffa2b342f66cada3d91b8ec98a285d",
          "5184659473cf0a468dabce5f4eedbc556eb3bb9823f0e968853c9720903253af",
          "a5cb2381f01b8ebbd7262ca9d98b18d526c4e52d2c9639f8ad9420d57cd65185",
          "5ea98d105bdf8d95c45004c8d4184d31fb7613ce4cd7345e884d66b9c297b693",
          "e3e7c57213cc1d76af35ea685dd24172917688204cebebaa6ac6f341ec55853f",
          "473838f0df84fb3108e1f1e36d890f5fac0e301ef0da344c2e0d2ddf5e1b0d58",
          "d75a0f3d1f7149119cbdf74e9bec295610c5875534a74c0ed0e9210d79d80637",
          "f9b15427ef2f4b2737280b5ae328ac9e99e6a98d3f45ab67d63a9cfe203ca9c1",
          "129070db49503ab2042524cc7425229904541bf0d6c1f822c96d5a7c71665674",
          "5d70aa158d498939586bef1178ee6980185f4f86db5daef27385cfaed5527f2d",
          "4f06cf4a67a7738fe2c00b6e73fcf1c45f5246586247fbecb6628c75dc7738f7",
          "0de5c9c93cdff62e4a0ce672231fd7a00f722d3fe6b44ac600f4e8bf14248668",
          "1f0dd48aaf2d887a2a13400888d62e12cb7e9299cdbb7ba4c25be935ae78991d",
          "7b0e4fd2650f1197697ffbf15aa0ebaf33acbe3ed6974a62fa794e3195135c24",
          "166bedaa5d33382c31ac94615f05dd6487dcbc497e1c7f44f61a8f496d15a677",
          "ddf4b22b8a8f8c80de4995508543dcbe06a60de6f74b3bf74ae79f763c4a5e57",
          "7593ff3827aa85bef61b128536fac8847a9a9bfafef47132bba460d5bdbf5e8a",
          "05883a3f25f286b23a5535d4326df0be9cf77c80e8ab70da3657bea93cb61092",
          "f5777c23591a8b32df2ce91dc33b8fb41a805886715cab3f55facd05f189169f",
          "566160d3dd1eeb10efd6197a2a401cc658ca987a989f620b251013227013fec0",
          "6549282e812c38a60767e6690cfc21a837b5a0e4f084c9a55e24ec2fe5cfda51",
          "2f9d84e5419c6bc910a18e18fb1b0a31e09321898ad86aa0de4d95d33ad931fc",
          "d60924fae3005749a409a0f1f58a600653f91ee0242dc02772c8856c4a084ed1",
          "01db35f6bbfb43d626bf6d00e96bf38adcfb0d56736c286d9c2800ab9a36da27",
          "55769aa1d8d45bb829dfe3fd84e28562dc1692e08d1fe72bd33dbb9da1687b85",
          "c4d9598981afe18dd044303ecbc484e858155ac6c6e63a76c49a7dae99e8147c",
          "946a78dcd4fedf59b62c3c09a111da1a1454a6e02e79e0a4df4885daa5b8ead0",
          "0f903fdacd04475ec6bd043d2e2e4595d36daaa28980ee05a13c38a5fec4718a",
          "ae36c401ffc217e5fd4128aa631eb707d122ebc6ecd383fdd73684e0520fb48d",
          "25d1e0463c089992be384b0b558a822121250673ca6307cfee34e0501665d4ad",
          "c1450d9e45619d8c3b771f46398d848eba26ed862c36be466e040554e60ba5dd",
          "9482464c742be7a5d871bc10c076f5cb1f9fa1724f7983967e04c43903e27c72",
          "3ea3eed9b0abdae5a5033430c3fb5ef58f296c30e5aff7c8b3d70546810f9be4",
          "2cef41b11287978e4b70011426ec296c22246c5be11428794e0b651a913b0782",
          "11a444136f12625c43e76cec4bea498a853a2121c184d15d3d467f053ccb8b8f",
          "c5b3ff281c8d3d1c39d53388c5a0b0c0ba7cc9eea80e171f5fe1771dbf890c2b",
          "e484294d8daa00f78d81c2a22f0d7df5f45faff59a78ee3e2b54379c76efa5c3",
          "31edb4d9febab4246e6b7b7a1772ec4dfd1d46849554ee1321cc7e02aa81fadd",
          "60c9f67408ec92a0a7e3931e3eb3fce383bdbba546340de23ce7f8133030f32a",
          "d94206ba8c423edd5bb1b42e18083e80e8e17db31e72d976cd2af17edb4e6dac",
          "a3546f38d25fc6d6ef9b5193a6d56072e2e9a69f623165113a62cbc8508b2310",
          "b6bdb25c633dfa1d6eaaf680e7d8cca0e626002e986e4aef41f8874abb19469c",
          "2b4acf55ee2bf007bc68929fb5f879e9ef74be25dbb6f628f7e6846e1d272f1f",
          "bbaea59b7bf304b4bcd3072e16f8b4a11062648e3400e4e5863d45cbd74bdcb7",
          "b7ff0f1eabd80740cc85df3ba988a8caa8b2f57c10a67871c89ffa3a346d5ca5",
          "55f5dab7b2980eb09bed212a5ad88c8bba844f0c013c1702bcf31f2c5a3f03b2",
          "b219a6300083956f2782607b5dce80d3b8c349bc21bcac15ea25294f90061612",
          "ac91b6d4aedc91b21f445d9707216828de217a66b38adf8c274c7d177217c928",
          "d81fc0c1abb4d2ee4db6c0dd4bead2344d769f6b8a6ba54d651227c38a3f5a49",
          "cc53575fe2829a796363e112ccb36da944dc2ca8a9d3daa09021b2650b338b1c",
          "0ebec4972d4e3eb899133773021e71a3fccbba5f204bac31403890ab7df6d5f4",
          "f8cefc1d6607f3d5fe87601bea5ae2b72139df30d4158949b15ac3f49b418f43",
          "bfa545e31faf12ddeb1b21ccb16661a6e7f475b83d70cd814106b9ac454a9cda",
          "03ba2138cc211efe6e66f873646739b41969362c5a0f198bf0d8725c578e7e79",
          "3f948efdb11bf23013e687802216002388fbad31d445df97b5fb688377d4c3b0",
          "e55fc609ff831f8935b1eb5750ace576734bb46df86c3f1ce867ed028f7f1d12",
          "cc1fc38344a1136284a52d77c31b2cddacf16514c5d3276dea34aa073bd5cc35",
          "9abd7d136b435ef22b5a9946a711bc78270f1e015b46363d1edbba3d845c5503",
          "a4b191c7311ce22e0499e205b149ff43a5a1d58292c0b7bd48432a1c2be75559",
          "7abd9058f7f3c08396b8ac1874f4cf4ec7656e01cbf94a98ec0570e33b63feb0",
          "fac620624b0a4ad6b5df42488ab7334adcc97ecf15fd51b676eed74b9f95fe00",
          "602b86bf8f1b7d3909607dc39e1ee6945c3226d812ebc8893a37fc5fbfb2506a",
          "3ce74ddf9e12c8788ecc9c6cd06e664153274aa849bbaa9a4f527c72d53862b2",
          "f94b79c107f0efdebb955c96acd5f35174b49fa2f91fae79cab581c4f76e4a64",
          "116a5893eff42e0f496cb304dd02d752ac017e9cad6902d3dac29c67cbd08bfd",
          "b89bdd26353671e9096c9035931c1ca0acd62dd1d117dd293fc36bb10b6ff049",
          "f799eee822a9ee9634f2154aa2b7f53c498e63fbf4692614764d7869ff82a612",
          "5fa5e0c9476ea4776f69898eec7e9db70625947e8117c5adfb5ee7e95a434e5d",
          "9642d3f9ee7f36f01595d4754f758419bd2bf52fcd8174bdd07cd64c7611246a",
          "cb3c3468a6f89435537677ccf39cbee0646c3ac711433caf02aeedf3459c5ef6",
          "08cb33ddef4731263886c6f44b1b1db7cdb140bea9fe0d275bb3d1279332ea9a",
          "405776dea5aa396ee45c9478ea76f1bc3751789a4c67be8c0bce09cc01781d5e",
          "34d1973161c546a5f00af5fa08a4f83d0aa5837f0e885d64ceacc970fe52f5f3",
          "eba51364e73a9d961aa2bc50050522308be61a1440de24aa2f7ecb9fc97ac9c4",
          "c39128f681bc67480d0d13f90cf4ea07a474f1b53eb9fc7651332f1397ff903a",
          "c103a3bd566ebdff0212a7f530b56ce0c50f156fb513429f168050fdf1fdf136",
          "06facbebb792d7e396842288a6087549cd4d4c57c9b425ded036b3e0515ce0de",
          "9f3cadf419d03e78455f7506bf9db2b8e05bb81363ed89b2fe38403a729c4478",
          "dadc7147ea26dc883149461a25c33c2941bf5627e6f98b4ae928e6250775e7cf",
          "0769474c764735c5dc01b9a22ad1f689af03087ea085ab75227316af5b20627a",
          "c7444b37886eae66a8da431e05ddbb00c987e82bcc1bdea4b28ef61a31426224",
          "8ebe5340323d844315948eade87c446bf1ff4534c26288cb2a1f5cc2f6b024d0",
          "aa23fa33bf9ee0b4f949d04241a4030b48843eee2d0fd015c443a3d55a609dbd",
          "994d0e0554e82975a94f538c5c434bd3f4e4d7a1d13deffe2a30d3bce124d710",
          "777b462680c63c1696eadeadd5bfa3a5d3cc360eb09c5bbc528535d12b795b3a",
          "c942ee147fa9390757d8b6f2031c87a02acdb384961d8fd4ebe920c288784b39",
          "f5f8a1a87227279bcf78c443ea53cd86543485e97218a520818d62d05abb27c7",
          "da38263788859ec82824c2fdb639c62d1e02721f22e465a12dfa6370d2143934",
          "a2fc8fc8321adbf91c91c7c18587ed86cc07b503c01786fb3c2a18bf16c599df",
          "d629c1f7d854679d14677e289240660b8dcec2811a9297aacbd307193df6dd7b",
          "38f3db7cc46abee73e8c76e2b126a98700e4d8c161c2a104e150c7409496318a",
          "d49f0d4b0a594b384255b1087e87e94067f16f11dc8e9bac07e084126090b3fd",
          "e3f6749d9c150987fe6b81ef417d377356365ef606c11c4199a40257c6d79704",
          "fbf31d0d9fc2fb02cb43961f15664eac7a0ba127a901ac4fd68e79065ce53115",
          "fdce0c4fd3099a34323c702512d8152d48a8d2db666690d8448d25cc016fef4c",
          "7e1714908fa8cb2df150f4a74fa8b9d214a1197b0896dbae9f9fd6eb8a3b99cd",
          "4fa4c2ba669034790ed520b0ff49e97c04e02cf6db52e375f0dd2dfef066ff62",
          "b1fa69ad7a26c9c97ccadd8c9a95ac4385d382c3d2d2f68f5b869f805a5efa69",
          "ed495b1207be2812e00e53654c4df62985f572ab85e861388ffdf0668fc11931",
          "6f5e3e2adcd65b013ae59b109805b58ed7f7adcd818a3994b11772bf1d7adebc",
          "cb81252f6e88c3695ea5454fa79347823d4153f0f86b92ae6835272549b1ba72",
          "2b2947562de14c9dc21a2bf32f88ac531b86f63cb96d9a4566c2fbc9159df7a5",
          "5e2bc0515d100c393f296a91bf0a3515ddd96068eae9ae3b9e6c7dd32d1dc635",
          "01c6d54ee1413e5bac84861fe54df441c32be8e4ee3e1b899e60f361395cee66",
          "2109367e0e8928b8619d0a5c78b873af2ed063f048ed6d8449780aee700ca2d3",
          "655cdb458fc9c8e6ccf4bd46eb51bdee98d33cf9b693c61f57335a72230332e6",
          "4fa8d9ba296a58551958d6d3b01395df58f8c49165336c57612454bd580bb6a3",
          "f37a114114ca4ee9e910f241177a807a0ad1e3e7b165e18b30e28ea2819ff802",
          "f8f3c36f138144a853ea0487babe7488b5c469790d68b3fb0bd7e60e9b089ab7",
          "40bd33c10f3c7624caf339ed0bce7ae27b9293de6889e0815fb29cddfd620bf2",
          "36ccb40775f49b805fb47f7bc5e9b873b54e9c2ed6f363bd748f362edac45c18",
          "5c320ba29bc396cd4304f6f0e3ec74beb31cac466f1716afea34822087528dc8",
          "bd1749313bd28d8bb335aa218cd91bf04b2356387aa6619f32fffa6b083b3993",
          "bb76d27f6a40e4e330a121f30b61e5e3a3d53378f6c92f8c082d1326728a6481",
          "b71f4031c3df0f8edbbfb8570f77b0e662938440e9789d4dec413fa7f0848fea",
          "46496d00b66a45fa5fc9bac6bc78ee90ff677294ad0f99bff5a16cb3e0d328b4",
          "a11d8ab26e3a0862ea28faa3944d2df4490962e0c786cca34d793afee023b8aa",
          "0be18b80065ef7bbb01012e761d2bbf4999108e78ebce7c634f479db07d9158b",
          "c186f86ff4cbd8a58e03e30717a83c37ad2a53235615d3fc1a36757d30559a66",
          "469b94a2972f14bd1e453b818e0a5ba2a86ef804bb0e1609955122461eab3abd",
          "918e606bba3392b3955019201daa5590cfc6f4d2271d65b992550a2aa82f5bca",
          "21e33aec51e6b2923e5f16ebe51fa32a3396587b1a6512796e8836e2b81bee25",
          "b0b92ce3cf6830456bb36d87248c07caa06fdd77ed2da63ed88c756a0ac8d8e2",
          "f6caa53c5f5fe4ce10ceaefa0a221d7dbb1caa2ca2f8e4ec33fe74c1aead8de3",
          "8c170ab18070d7afe56551ead655dd4255cf4649e579c4adef844e83a2b809ae",
          "b40387d7d94b2877e9754e413557eea0893fa94387a38f2749c0fb77fe8cda86",
          "18b2a8602a5f2a75aa110a93f3f454fd2acdf80a0b4a964d1da4d2267790e046",
          "2b0ecb64dbd22433e76fc23e85013652e9a4069a9c0a32889f8289d2891d02ce",
          "9e680de8a6c623091e7f3fab8377802b75946191961f5dde217306357aedf599",
          "d949a04e273e6b5099464b1f7b756a183913e3491bb842bc697e467cf0969a84",
          "521b621b2b4bf5f4045892d1643d89e9919a5f9d54723247d067006b4f0c51e8",
          "499ee8b4f92174999d61fd7db19cf4dd5ecc3a4c523ddff397556d9ce3638d1e",
          "afa47a915376d0877f6dd10dee412dd8d6c2989f7c70a4f6096eceaa6f424911",
          "6c7f8b08e4bc6b5902f0f33261c9a14760d9cd6686dbccea03c439514effdcce",
          "798c67f040989d483c99a25e2d20a468d21fd242466331f1570eca71668e087b",
          "08485b588e59ee8df37de1ab1b7ca70af3bb3e39a23233811f566eba6cd0157e",
          "5f6819044c880817dbaa5c71edd1c2345d6855c2e383c47967a22f3d8e4fc5ef",
          "65913a579074f8e38694b69ff1b38fc38af3d4dfacf344ae53c75a7fbc2b6378",
          "e37536be1e75ffc30f50b2f4cd5d09a37f2a31d8c62a0b30fd2c861cdf6b7b38",
          "14976d5a8585221ad97d608943fe384df7eaa097bc02add20dcae652f352d2c1",
          "1f9c35e09b649ec5a9e9368e8fcdf5fca42c68514d52092ffdca753837d92803",
          "60686683b63f960af1de9c9e7c2af59662ee4fd51c610ec84554d816640774f2",
          "065a7ab818fe6915aba2923807325be43faa320fbdab9347fdfbae5bacf60764",
          "4aad180bc0aa81e4ea7fe0979cde7cc44d76da086ab5d2a4f1aca6d2a9d53af6",
          "190db3c48f4d2dd04e212436bac442074e207a82559c4562c2fd217a3f248df3",
          "5a4032bd0a1fa34b6bc22f4fd00b8b62185cabb3a96564e2bda813a90d18f520",
          "4071e74c693cf63c025b8babd2151f7f45216b490ec9e0216b5bd1b69fdd0e5b",
          "a5b23bc31cffccb792e7616311d83b9a9d8c9b73f7d4a1d0d4975b10a75464cd",
          "346d16cd29265e553d46b57f62cf26bc57a92c16fd132f3ef2ffb3ed350137cf",
          "57bf935e36a35f4185af91ce15ea12ac708d07c7ad97ca5dfc5ec35cff208664",
          "144f138e80f8fc8e3edca31965715a271d117cfa36333c48f3948c945fbc0238",
          "62c68a82ac053131e98dcc130ebef174f2815546c06382b8bc190fd64f7c3866",
          "78f2c38265aeb6aeb4bbf436ff2e3637b4b1416c5c8fa6a3da0cffa92335d37a",
          "dd8f38d337e9f0b4c5cccd40df571a6d1062c9b8f8c83750d3cf120dfbf19216",
          "ac5d87b776c3643f3212e70d06db5eef3d4a860c3d5e8cdff7d2ecf835795b02",
          "a2a4f8ee91d2466e03a623406a19925884f531bc6150b8d4d76acb00244a826d",
          "8680ccb6f07de7c1a1eb69cc3b95418ca8087d840543496269404c86ea16f4fe",
          "ab7d35a75b3cf8b60cc25d6e2be05d9468a0992a7a3edf2ae0dacb42940c2ea2",
          "3af6d1af568e3583258800242ccacda551d9ae9cd4d602a8c1f0d53ac2a2eed4",
          "49f9250ec2705ce0b7fcf29285d33eef4df9f9c0b595eac906eeeb2bfc3e91ce",
          "981bf9c5fe12ebcbbe387cef71809a6b637a211dd79926b4bd93b7d591bbdd6a",
          "25f362da6d274982a9b99e6481f6d1eccb63c0a3d9c502dee0cb9093c38582b4",
          "96963858c35fad3200da18bab2342a212fda886c3e9efdde52879b94f61ccd6d",
          "aad68e1a7c51030fecc149bf000343caf65ca57991147ddf08f64fab331909b9",
          "a71aa1c2b4dfa83ba30cf05a00c7322882f171817a7696bca8937c3654675885",
          "17da450e157f1209b8153c67129d7c14e1b06ceab688c31f53f236c267e793e3",
          "081213ab4a21b3836ec66be834e6e75e9bb0349ba39d1f9c6f3ddd799a0881ea",
          "7711f707e22c2e31d99b85bb63b4545216892bbfe1d0623203ec9dcfc996216f",
          "72dbf4a24f5ef56212ac4d8a0c447901bd72a7e41f27d82f518deacba4c47df5",
          "057ff2ac8dd64d61defef05a74abe73eedf91aed160d81f8897d34f4c36eba27",
          "c8ea2b53e614557a2ae1944a342c0cc02c436b07c9d5ecdd18d5f0925e65d1a5",
          "2a7b423b62a10d69f08993da9111a26f8ea5080f30317bcaae15ef2662c4efbe",
          "f53e4d82a73426703cf93733e8f3a8b9a2625c1d829b57e612cc5349a7f12365",
          "44c4e0ec3c367bec354cb2967cf2c4d3a7c829691b9e344346b656668508506f",
          "1653f978fb2c1899aec2f1deb526cfc36035504935f1333ac960fc632daf4b5f",
          "692cf1728bcee14988357f8d9e1195a4b6e98d15aec79463d7e7ee855cc13d3c",
          "d310f0144eda2342b42f2548a4af88c6420c4431d7dc9f969f36527de230379c",
          "deb333b64a96d17a00fbff05a73932fb07497028fe47c6270d8c3a4de70ddc34",
          "36ec06f3b8318d6201778580ef5e555d6602440df88ebdf15ab299ce70403388",
          "bbc7f82039e3076c4dfd16852c9c3a94924a47c72cfb6fca8534b120a87cdf71",
          "c18a44a1b01360c1b6e4a512c2621b9ce5418b1d85607e863ea77ea3ceee4d0d",
          "80ccc93aa466a8de985a74d0e1a391eb1e62acd6c566ac15c38d900e84edd675",
          "1500dafce3a6e4626fc190e89881e0dadc6171f2da2515ee52fddabee91ef706",
          "32499d2947435861a70f5ca7eafd741f49289f4e92a07a268d31b187ee762370",
          "01ab120951c204bcc26972b1d85a43f5543437f20b5c24a05250376f3b53c1c6",
          "0b046e5e8b03abc543bccf4caf9f65ccbc569e5ec42ef21c5079217f8ba2660a",
          "db02c42c434fb15aa6304e7092ba1d36b8d6484a21f803b6f4577fb375ef7f22",
          "8dd37b7de439d5d788143e8a41f091dcef76ed1c43b54cf0064c39df88bfff53",
          "5f9328da761eb648f3d9187c6676b60f16f8f106fa3744f1776b9cf325c45057",
          "78db50f1ed9a201f1ff95e205042dca438ce8dfea62dfa49310b197fc30089a4",
          "410f949f6a2cbde00d0a2fd53ed37d389264dca17fb9a0e7ceea47ab31a7d883",
          "cbb8e595e60542993a393ceb4beb3a78a05f66c9748cbf55f6d431e9991903ca",
          "b1754d0d5bac4da5102afe7c7de24cbf55c0822a6a077e0268c9174d4e9df5b6",
          "f0268d1cddc8241801f2eef7233d1237d8958e73f6364ef06c8a220c60ec8187",
          "9c79835577f1fd7fec385f8567c2e3fdea4fc496ea8bc979ba48aaf29f2ca1b0",
          "fbb37919afb2db97b451e79531bd8ef82abd7eae76384da7a7032411f9d96518",
          "b0bd97b07827b6855886774cb2f2fbf7fb799ada1ad4078fe6f3c3760156f9d4",
          "f3791e68a6e9cf084bda1ecc9ce120c233b22f3f3119f9666c06e00612d651d5",
          "e81f9ddf5efb6905b18c0f5e70da7c2000b568e525648ee1d821db393110cf3e",
          "2965dac8f18eff00f2954c7f7a07c9a8dc48e94e865bfd37e219705ce551f2e1",
          "ee703534bc6fc730826aa380bfeaf09208be473ef59d30058e12251dab67f7c3",
          "2781e3cb7b2014c63da6314e293ba1132a78b5983b45edff48ec408818ad3156",
          "ec7cca5af96f6bed500375bb148c5e05416342025650c88aad9bc212f1da18ff",
          "b4ee67f04e792b7fa802c160ce211f9e88625e16e5242e58603bc223476b88c2",
          "dae8c6e07bd13dc99c99cb59d9b2cd50cf16f7f28a897f25c9392cfd83bf4f92",
          "fbf0494715ec472ff27cefbd82cd3b40be707b710acb02bc425743bfb8d14b63",
          "812d5208a3bd42e387486a911208e0253451a47c314a4851ea19ef8757b2b6a7",
          "8cc82b396351f7292fc489567fc28140c4bdafe58b0298a37322790ae03aaa63",
          "e91c375df5393e50ff9438e9543304529e0f5866f8686194c575986ed005eaa6",
          "8f29a9b2275b24193fce8a7b5d2adf2f25fcc79fa128c06814157b15b8055b7e",
          "b1f933910d265d884270819a95e5585795bf02d0cd25cb46ac37adca963595ed",
          "124289db28049ab37e0bd24edc08fa7af1ce494c54a0dd5cdd8f32cc7fbbefc8",
          "79f80fe7d4ca203987d6a3c4153deabb66ad8c32161a45f8b53b5ffbbfa1cbfd",
          "cd60502763a6bdc8784ea04dbe040e18d807dfa21f597e6e69c4052f441552cb",
          "19689d401685eaf864eea0372d8073a34b9407a8112a5610b5646c2b4dd18ad9",
          "bb441dafbdd0faca52e984ca3f3309885d7e95aec0a8c286a307ad6bf9c9ba37",
          "20ad35da92482569c4f1f5cf2ee1a150729639fec5431c4cbbc1d69843706701",
          "da4748ea267c2502bbba27bc95d49b304613f54670f1c7d65f2b8a80183d5e2c",
          "898b962fbc923f5ae6a59e7be23ed6cf825109560f1e76f75c220be25d96dfa7",
          "988b508bdb306fea1240ccbb98f28acb8e17720e4e909e4b2f71baf190378e4c",
          "d6cac455a435a006c4e3fd6fade4dfb72bcbc9999b993e1ac64a67686fcfd80d",
          "07b62be7414b45ec7d2084d946312f22d8fe6fe38dd14dd736c5ca39d7cb8b4e",
          "6ef2841c47f3d60302850d55e5c1b1f5923d049e9419181e8e0cb2c63e03af81",
          "f3013408280624693bef993939b82784e3c01e89893604bee6c205125e365eea",
          "f29e9e2e11526cf48a8a4973e494803098930a8b844d62b164e44efa268fbff1",
          "60397e3c034f75cd9780b746bdbdd82d0d4d3dd505924218df31856d9fd6e50b",
          "3ff0575d3acb28a5c875b7f34121b6031ba455726e950270ac9d2c532cb6e361",
          "b4ed9dff061d910e56a8dc1a0631b83267446c6882bdab212e380edd6b981668",
          "1c9477ac2779095215806c6d13f481a4ca920b185e4bd352397ddbbce90de2ad",
          "f4a40decfa2e1423680f6c437dd17bc6fed32bce6f329ebc859c0b7a54963fb8",
          "ce26d7bfd0f2ba958222f0833c009736796b58bfa72b03c1343d878826f487ff",
          "82f56ad441612b48aa408abc8d63148b47274d27dfad615b4e3b7641124f6b54",
          "cf15cdf9220eba2c831dc528b54d1d249fa5a29f7715e1fd67303b04c8fec0be",
          "87509bdb5af786532d3e3822179d2e1045c47f195221729dd9561b4e2ab443eb",
          "4967ad7c378c93e7ae2b11c2889f80dbc18390a96163a1daac5b9cbbd02f6a7f",
          "5dcde6c86a1fe771c7656347ae99348a2a139124062f5d69f75a9554b795c93e",
          "216c68d3a899b4ebc214c3fe0dd410aa66c2cf75c2ed4b08f5e687bd31841a87",
          "453c39394b07d253657194f79c1ef42119d89aed0a1ea35f5ddf5658bb55d89f",
          "342df34448bcde5ff3ce7444b4b60ea755f33b073c2bfcc65c794602d7fed482",
          "28fa9b18152392d39a9f4bc12d2d93356629dd990102ff2e5a9f30214d7faaa1",
          "229d1ac8f2dbd23693d08cb0ed4aca77f4ad5bd4c086c7214f12461b0e00ec33",
          "e3f63a8cd45ee768c0411b2f8dd25dcfa9748c01ae1e511e6e39e2b1aef77376",
          "60559b80d4cbd57fb59e0e33bc853d2fc7b6b9f7d702e2716ca1e2e115e0c253",
          "a058d1298599df6234c269e10f477fd316536aa806adb3a13096140ee52c1929",
          "0ec0e1b4ded299bc626d0f3d1ee77463b31ef0c27cb441a468a1db89cb18eea3",
          "bd9f1ff6ab24c2e5a57ad61af45c0084856e1776eb4840be66f38a9c3cb9d1ba",
          "d0f261fc85a3cae8b89bf64106c4301a138129d4f59069b3c3e971b5828a087a",
          "206ec812bf77bc5998c128cb530a1370eab633e973c8dcac7bf06a01bea6cf68",
          "9d0e1e904523bb6fa701dc1dff625fe95c073c238d6bfbb103e382e396a6416d",
          "3700c3d72f0dcea3df7abbc0848adae11e169e9364e4316bf9b65c9fe4a89785",
          "06e031ec2111ba33e04be09c75776e18531754a7c99c7a7dc827b2de4f1c2b22",
          "a6321b3a52146aa07b68a08b154777fc2a45c7b61d1f51b9644f63afc3d880f2",
          "f343e6957ed967ad2e06e9f28d346215510e581c0fdc0ed893de7249433f2cd2",
          "c281fdf35f6d043e0a746fb2b31b5bd8876a6ab7f759304e965c60a5561f4d1a",
          "91a8641bf5669a9b0dec01ef663272121714a78fbb89e4964dc61c5fe0335337",
          "cbe36a56d3710c52036187551e98359ec5176114c95c59090770f01a75568d6c",
          "1da2c291df2e8fb8cf8b516bb214f7cc428e82686489d029601acaebdd1caab4",
          "ccc788ba8f76e3aaebacfae808705e7dbdac19c36a58bda1fe07912acc604490",
          "35419b2f3c58513e0e12b66d28b733e4d1d5054d2a96ad9fa945ae0b5127a7ed",
          "e887b26a78a2b143e397323bb761e493547e19b91f1faabd3481e8268e093fad",
          "d9716a64095c8082eed9fce9d6c6669d9b08c9b8c871b643297cb8a3b7b25059",
          "f3ae28eb74f1bb9fd29ae1c44fc8e278c91d753a86ae5b8699a7303f3fe6ec0b",
          "9865599b1aedeacd16073f3b215aadeefa80a3619a26069c19f144b9c15dbf96",
          "014fcafb969b68b3344230782b76d92bf40e18b0b2c1cda5b43748420a139e13",
          "e97bff2bd620792b5b4723a10175710ecf82813e19cb3b633d564a05ebcadf5b",
          "b81727a6674482948e6c0cdb6eb2f05a21591298af007e4388bab0e6b92c3cc9",
          "b4d88bf803e271272fbeeeb0b7caf5589f5b31fb97e48ec9c5a9fdea7b452561",
          "28d64d24f4c7d01d603b4e86e56e2ce8b56e040db50c1c083d8d1b62cb7eb410",
          "36a60c800d8fd3c6b642215cb2060194a5797e7536a010d5ebdc6c9739733f1e",
          "1a414beb6551b019dab23229086c33ba18197589084c5f70023ccf1174c73fd9",
          "60df07c4f5e47d71e6a3854260ed764c5a8bf9673b5c593bf8b4f9f08fd5de9f",
          "315527bc59910970643be32dede0c468501651e2985ac6db7a8879897f0e031d",
          "81b1ae935af61b3124cb4075365b3655da728fa5430dc4e631d2529ea2074027",
          "e2c3eb8fc230b8ce851e18693660d11f0a3890a6e8e4fe77d9641b30e47f99e4",
          "94e8e6fd9269230a6fa7d6b12ac496dd18989ca9b5b4a4f485d1079589d61687",
          "857fcf2b5a7e4d9331cc75bee896d2aa774a94425ea69512dbf2f6e3310c7a7f",
          "998f83cecf778199fb4934f2e481dff76a1d30ccedb2ee13d57b048b70cba34b",
          "942f39a88884d05863e95e86f01f37227cacfffc3596aff097599b8f1f140116",
          "58919aa711a47ae890c57c46ed4b2282b66e006ef595f1f3093006a54f005524",
          "b71c40f8cb6611cf423d9e5cc6efb62d3eda6fef32503f13c9f1cf4e3dae7f69",
          "6e6b32405abd8413908d712b0fae34759c9d6b6820937b0ba001e56b613b9f7b",
          "bf9de3fa5911f03aa94b444d8cf0038ff3294bfa92c671c010f18ae1cee992d7",
          "6ffe430f064cdaedb9b309d72ae8ffc65536136c1784985d8a3e81c2ee586e26",
          "5004c426fe5d66388c2ddc06d7ff4d97b327fe4b4d52749723d3d8244c43f0cd",
          "b7f146abca166ebce3477db935b948e6f735d995ae96d1162f8f6d242f64dc82",
          "d5192e3a1bac3a53f8a137a24136dc27bdc8c5cf8c94073544235a93a543ffa6",
          "90534def02e362af3c2b23f0ef1b87ac605539dbc00f66778bbf9c9941a35a04",
          "c74900d08c87f26e3733adfde2a5dbd55384175d4d98c55005de3ba7ab24c7f4",
          "55aec798e4b2940c519430c8600b28d46bf3988daac457c98bcff20283051763",
          "b6142e1e4b4d8b845c2df88b230ac6b4f86c7922f3651523aa37704a80bac140",
          "bec29b3968814eb5d134da70e019d6b67eb6945a22b742f173410ff88a8fb95c",
          "1ef38cac0abda8033cdd4a85953a4606cec2fcd155d902e242939b359ce9f596",
          "05cde7a4d8aff30b9cd9c2b11a02fc435870c554347cb674aca8651ee8e28fcc",
          "6b717eee52f013ce407a372d24e2201d93a8cf0c733afe9408e12db1731dc225",
          "304fed06a8c093e91499b803b51faf27d5d3e5a2d5d9326dada5c099714d49e2",
          "9d84363a9b77358340818a2ce2393ce7e423e19a471550aa8a28482c67bd9d65",
          "d46c0ff548b0f8235c86ac59109be350b6ecd5528dbd340de2b477c3c6e5dbc2",
          "00f33cfdd109a439d0edb684c2ab0320ae323c8a0aa3db9648380e10426d7457"
       >>,
       "300369d989859a9b74211d1b577eebdf6ca34a2c15f878f0e4b4dd78c430e40db1516492800{\"amount\":null}",
       1,
       <<
          "edc7d8ae7da30a0d8c2955ce82d3bbd154576078332571b59c237968acd234e8",
          "61e0c47a42ea7b3784d2f1b83aa6ac388483a488c52151ebedd5ae586e62e2a9",
          "01200d23266f0b94d2d0a6e37c4e6995bf36a6e4871420e3a51489e7eea0a25e",
          "5331de207d31405645ea624009a2fd358acf4a9afa3be0ed70a041b17f9354f4",
          "bcc0cdd3cdccf64c4b03ca749e531d87a2d6c2ec28d24903d8a73dd41a81522f",
          "ff8080b27ef537fbf96aecb335f8c901b09990463eb534a5580203963f94171b",
          "ff99c265dfbc60e22fffb4c5df9a77085537ef3fb060553d10850c760da4b4f4",
          "0c52896822295fa1ee93f213db08b6f0869c8efac23b50a9d1ac61103dd6edeb",
          "c87acde31c5bced443738a38d47690b8fa737ff5ed210c5c0a664c2b24f61f18",
          "2351292c0e5556291609eec6b8f672d37705677bef4ebea981bb1efcc4e8e4f4",
          "125692109c7394ba03886ed18610151874be0bc7ebc9cbcc4f3cc248078ee60a",
          "be580c63ae0a5aa56693808febf270d9afb02e503ce504b3981117e8558e7cab",
          "17d579a1291a32c450653230ef6af82678144535134105aaecc5770e9e8c13e9",
          "b69be6d07ec3efe662d537961669f0d428217a3f5e4e674a3402762d93a4bf4a",
          "29a070fd7ee374e59510b4ede41f20e92a6ecd1fab02eeedcf459d055a9b9883",
          "5bc38d0c7f9b3ea352f1e414a8d9452e032554ff14d12369dfc83e01d46e63ec",
          "c5886dd96b11e74597038905b0743549d25a69e4045b05d2ff46af7e1bd40351",
          "5b71c5b720a929803ee48cade028c778704760ff4a606716bb2af59edca08bd9",
          "d0000203972e71c73cefef36adc704598f0a93369e4bdaff89cb213e9823e39b",
          "a0246e3c95c2a3b62aa2e588ef7e7cea482b09b5e73124f414be34ef20e12403",
          "8f5f065abce19ca5cd79262b1fa2d115d1203ee17cf211a372a8811eddcb518d",
          "48e44eb43d9566d246b0ba2fc771e0eaa41c9c5b8fb0cd0b83975c3d23c687ae",
          "e10c1e321abf0c398597c4084c2aa7acab3dacf90b8e5123ce26089f41ebb8d9",
          "8c5735657b04bad91ce84a4d09d8dc4d83b53fcec017c3bbe5156852b53f3a3e",
          "5c053865fd4f5f295d14d22d5385227dc51fdeb31797eed5e2d134045468b971",
          "64509a7d8c3d38b8ecb4d12a9dd5acf5c074483a1d479590068bfc6f249a28b1",
          "09827080a3cddc38f42644b93196771137d2a0149a715cd63e0d096297f9b8df",
          "7405d14b0392f5143e4efbb7d857820b9beabd85f83e20786f6b0edf9291808d",
          "4de8cef90a16e7a7fe13316e2969a4f99540b43edae05dd2620fc926766eb763",
          "209e4a22041da8a96c9ffb39270e01616396d508cb4ad9d62c0cd4343a26c4f5",
          "b769c0edc020059dd097ba086272175e99e3884d6e61166f53eadaa47fd82102",
          "a81f15ca718920d76bda362018b85bd8b11bae5e7dd3579bbb83d8b1dfa95d95",
          "7dea30aebf41091bd3cd0a19bfe93b491b3c97b42c83f0f394fa773f544cd024",
          "fc762ca7b470d3a1ea73556f11ad89a15b54a68f97b40620a4aa8e3eac5748a6",
          "3367c63c70926c37315e6f077c6494bd747bb0332d33150e935c4ca1f7cfadbb",
          "361d1cbef52a6f6f2f09ce091c68bfce393429edf6061fd02d3d0c068a1143c2",
          "0d3606759749f9615abf8284dbfd3cbbc34774e81e3cab04a355e297c8835add",
          "4476cf469c3c19a12faa83f704f385dfd5d5016296d7ffb776cbc89c36c4ea90",
          "49a65ab3dea8db7f871becc241fa3fa37c0254f1add0fc9ab1465a703ee38b5f",
          "74afab0bb2eda72580100f67931399e7f0db2d2766f67fef9ef9aee0302d189c",
          "14612b8fc6e6da9934f3e52f77e747eb24e4dd852d208e50d006b1a2757e7b84",
          "41b7500f8d430e700d83eb3c5a35993a116233464807c33efd8ceaa59cf3f2a4",
          "1e26d96c0e229f609d468153425fa007e7bc9005f8b9f7f2b40d3dbcc3bb1b01",
          "6b4e5105f1a1673d8795a1f90c303e96bab0700df8e52031ee3cd7270c0c2c66",
          "5b97cde666f3cc32c2a5f8aaf89de44551e4d0c59ef0285bb8ae387c345c3bef",
          "82d0a315a02c3729753d00c61d4bbe9656b411da60b298ec91c566c870043e9c",
          "ef4a358b6795fb507e49b78e91a51697b269f62e4a6b49b819060729a7c899c5",
          "0c12babfa8b4633cd788a39e7fb7954062da7593449deae23640ceff756a6064",
          "72c8539e16f04a5bc08c9b74eee3ed235b71606db9e470ecd392c48636109fcd",
          "a7b41db942986abbb2e0187cec9b7d77289d353b19a840126be03fa33eeb953e",
          "c969f07c0ce9be51d39295082496a17fcdee88105063852e84a8a5a649debf93",
          "69d5ccec7a1e971236592850daf60a560c74e726ec02fef6843705801cb0f350",
          "cbdf94421428242d8870f5aae6ae48529831fbc9314fe1b8be63c6fac99c2866",
          "526a7aed81cb12007dde94e568f502681256772e0cee5654542d66a0f39cbedf",
          "c1ed534f47935d128c2334d1be094f30e2aa616f2ca93c1013e6a48aefbad0e4",
          "7997ba8b03bd002f4318bf2aafdc075147fa2c4d8ff9681e776c3e53d6b08ce4",
          "e4bf9932f6c3527298f8dd4059060610ff7af36b601e6f64c168f75ae33606b1",
          "479ffb20115ae1bbc8568ee1ed6770f4750457c50d91341bc606eb5937596317",
          "e4202872d1bde89ed3b105f7ae399782c40af9912e638ec310ce755b301deb1b",
          "5d5cece0b6973860b949fff03cac650e08fab4ebde20a9c2eae765137d9b3a19",
          "ed997d7f1c6362878757f3ed281db6a15e8ca499f85e33ec11f08abc899d5d0c",
          "966a7f8703c22ac5bf0ee6ec20a532e3d610f5db9f2d04dda208d839cad15950",
          "9a47c96ffd8fc149942827cd70a4356589658a919f21132a69ffcb1c6ca076f3",
          "0cf21754f040ade16ff7a48f5a4d3d2d243ead49e79d44e4875007701b23f54a",
          "cb80c3942bf9b0dd5dff8c8a2c42ad6242abf9a90f61c5060b43899ad278d226",
          "a0cf36527d2127d8d5896ff691650c6abd7e922fbeb4dfdaa9c75d7563624f0f",
          "c63244f6d353d58ef3f9fee69322f463b5d811135a85a7a1b71460972f7f8f26",
          "853a5af43137a8f49c6fa47176a5bcc46dc22cb51c1de80fac9f0f534dd0d187",
          "9e748ad1e4871431454e77480e9cfbc8a4b845b555d4bfa4e175c11437950cbe",
          "0fda0542bfa248d35b5e58b0190e9def2b1bdd6c44aabb5e9411ed3659197615",
          "20537cb6357347117224bd6bcfb2c7a70942ad8018304dc04e5f43c341de3ccc",
          "7f8d3dd3d54e8b310733e16a6c9de49f39d3b9485126c24b4e199ac5b7fe275c",
          "181e2227ed3087705611e13038325dc117a8e0838c9ee4efedf2880eb23f4467",
          "e7972461580605ff43b9787ae5d1992065bd44c87517e659bd85bbe5efdf7780",
          "7bd0de87ff8f6807d63720bdf1e43e43866d9eefc0413d5b0c4dae817ee87861",
          "a2efab00d10c2f96983d6350145543770339475cf3655976cc5fe4b15953ff03",
          "f510ba30a55fdd8b3d885a482f0641cdcba9ad25c9aeb6e8ef64629710c1b722",
          "55fc2398f518ceeb1f7fa113f13513990c7e3d004b223bea8db9534bd94e2282",
          "9b99453bcb7c3b7985db9339a7d583795d890cafaf46322a4cea84a2ae0391ea",
          "f2fb3dafdb49a0b2cd38a5650ebb69aab264e2ad130ccbafc311a59b7c818a26",
          "0704d57388348946d793acceeebc021e997f4fd2fc31e931f124435d5fc4efd4",
          "ca06bfd10163073a0043da7288530be20a39107c1aa93f4b0c89213c2374c24b",
          "430bc94f31e9363a26b20c0cd843cc9d86637e9d2f8d50f29b8cb4f8c23e89f0",
          "b387a84e0f4a0bfd5b1c18a9a29c016033b9aa8fdc8fc0f90dd703aa75f34257",
          "a6a64c1864af8b70dc00d9b6900f134c41979724d0d57a5dfed4463f2a345c5f",
          "53dc1ff681f09b5062b5bcd5a0ca93b193c5a99c0afe118cbc180c93213298cc",
          "81a5fe56a90737456211c80f79529b71ddf6131f760caa54557a82d8e661a6f5",
          "84f20213358eadbb26cee69ca157af56ef5055c00906eddc62afbdb93e9cc230",
          "1b18add86f96cb1b6355f701b0f99751f18eb418927ab64246535358b7a454b8",
          "d679a0daae6b8a14f4345033d71bf8e143185a14a13c82d3a7bb2502b475304f",
          "b33137852b59248e107682436500878bef5495c26484e713416f534764711c67",
          "aa5c3ffb95ff4c0c7379f66308d0a529403489aaf14b07dd108e48bae80f25ed",
          "226f2006c4a9aade02f2c3d2420e70e3eeace1bbcb85dbee0198ce66766f2698",
          "7a529b28c5155f67b52aae29717d4b0a42914f23ff6bbb8d827295f274fd4775",
          "873de5b7fceadbb362abf02ffca3aa7fe0817cec3b51134c6542f6d0e6007f8f",
          "6096de42731b0319cc8251a82bba4a09bd21a9054bc98f6422e435ea28290dea",
          "75fb962611157ce186ab7050c43864d32325a4ca3b301e2dc851f6da3dd1c1e4",
          "84d7d35664b17a6f4f950157eeb3299d88aac24c1caea7feb6b203c87bdc7d08",
          "899f9f8337e4c59c125fff26dc0893169c047b172d1b82c876cc25c1f61f5142",
          "afb3bf0499057cb88d376aad7d0f0daeb363ec0c4eb6859aa889be766e5638d4",
          "8107226675f0efe64851621bd85841518cfec4cc6b4d616024ae04ffb3b9579e",
          "6503ee5b1ca45e8216b10d7f88a0cb5c599a8ad3238a21131d5a786630c3b3c1",
          "1a419c4085b8d6d67d135d29a0a0a611f8ededeafe9d32f49ab37913d3c7140c",
          "ca58e2b5cbde4112186c49338eb0510cd7b119537398228c76d9c2722e6ebb4b",
          "d2a8ccad4f81ff03d84d741284b84f905a9221317892dd6f74432a756115ee87",
          "96c3fd1b08201173024621a0abc2dbaf6110fab98016c1971e0dfc4cd9943b78",
          "8efbc6ab5bdd1023786c8b301bcca4065a00840da10dff2bde2514d2f7dc57d7",
          "7fc3602732ec2c61f1d467748098634efc880ac6407d33465f3e9386f6c16415",
          "6f5a4a477aeb8333feacf467af32e0da3011d756961690a0c75f224babae44a3",
          "2e63fb208f868c0e67172a623aa0669d31bddf577e38eeacd7410655dc4366ca",
          "c9cf138007b031b84df4219706960a47ad7150a9ff3149ba0f9a9f06d9e8707b",
          "440b7764233cd1e23fa923d74e7b31a2a0a3e598d3e4c341351e25c569056cc0",
          "f459c376a624a832c29c203d37552efc3a935bbb12e2795a01e38b990b8c8fb5",
          "06228d002a8c949907f3e742cb08b8874f04c445cc47f0411669c647c857b56b",
          "176b0416c3ff5e1bb073e919bca17c3cd4c359292a904920b9b180aba93166b8",
          "5aa3d97524f87dda84eb2add6e1b919a389ab29a8005f3a7ae96387ef4df3682",
          "3f1e74b5a33b2b7beacd4598c7334ecccbb5bb9d8506bb63eb0221624756d31d",
          "f53cf1fa87222dc0d42804da15b0ce9e0ef00c51d108ce56b4f278f54a16a426",
          "53e0a6a6c48c4a894cd85801b212306ca26b443dadf9a636a5d70070766676ed",
          "60c9294f0bbb17d3e60b53fd49be4f818f3ac61ff775eab3afbf809750085e8d",
          "e23b99c15cbd547875e5ca1d56cf2ba7727459e7415772712995391c012ab91e",
          "df807d5d6231cb790913b77b312169dfacbdae07b0a5ea4971a85baede48adc8",
          "64708f953ce55e3818e98afad89264c762f7565066f725fdfd652e4c3202bf93",
          "30ea07495f0579ee9c6190b3d4b051a12f66ea8882b39cda9dbe866527b8c02f",
          "342bf81017bb5fef90076def4e20eae74a183e53af3e25ac912b736c23650f37",
          "e997d5df0686427448d11e6118761e718c1c255eacd15ddddcc30c39b5107641",
          "6c6e08c30c320986fc0ac82ae7e4e93f6cdc23d2ea6a7e3c6789737b841ef429",
          "f61f81522f6ed99e08628787e9b13df885d4b995630a4ba6c964ce7ce3f83bce",
          "e16eda3a41710c5496acd2cc197d158c1515708971e57ae8f320f019dfd3b9c2",
          "aa60153b007545684d960b399905048a73385d8aaba57542f582dd70a248ba54",
          "55c950c34bc1e2e4777e877b427e9ddbf4306d5f548af29ec62edaba5858e10c",
          "5c52b4e73d40a6028d81b1e9b867dde1cf90b438c00cfe973c8f9be7af7ccab3",
          "f52cc367b783b94a440ccb5bd497530d030a1b7ee7340380d4dff7633aa20bfe",
          "fc4d60eec2ff982e4f502c15b90044701da20bec66c6ba51205ea3f3fa9ee64d",
          "2d6b230ebd47cce5cfa6e60cce772781426d916bf2368b12cdfbdd7adf1d0704",
          "83ad81ce36e8cab260ba0b5dea17e58c132918887b6fa118e083ed92e9675a7a",
          "903e4d51ea3bca89cea2305f32239fa9f6d416f22bb5afa21d0e2b60490d9c5b",
          "21b019e64bdbca1e5282a03a14a5d1fe0d22f684713d863ed4fd490f1c625aa4",
          "686b9a30b5a043804cb82d60041d3124cd8a8c19c00633ef446f564ef94f47ab",
          "b2fc2e7e72494ee43d1f3b1c0b16b8c106d3225b4b23de4d9371b5b3e74ebfa0",
          "cef8bc60d5af4a33fbbb667cd6d4210b7c38102d3021f5c827172d71fa0943e7",
          "566bdce7cee9cc4e012b067bd25d5f2969108d95f9b2e64e34a354d1588c7b21",
          "b13e4696bf6e57ef66d424ed7306b2b3249c41ea4aad6fa618f43f281b8ac58c",
          "20ec25d452b497961616333c8b98b97b9eadcd7170661bddbeb0b365aac5a315",
          "9bf4b3f9a49fc78bd0122bc0e4a2690115cba6ebb408c79d253b40d0d0c0b204",
          "312686ab004dc1cbd6997a13835f9a27350bdbbbd30c47640cbb32e0e9a8222c",
          "438f509186d7eacdcecd5d8846cb0ab08203e548274aa0386780ba68d1264211",
          "5280e8f913527364eb7d7b553f2c67742622fe34f6ff9e7cda5368a6b1879918",
          "313e01664f5bb5c2b7c87bf983baa9b856d67ef6a94e419ce67e2893a3045eef",
          "c9b8c474304fdbb24afad5b7b2ad89f35ad575190574ef09b91fdfde4fb1b36b",
          "ba947032161b7e3939ae900f7bd858065b24bdaf919789c65b4257eca4e57f06",
          "3eb0ff645877660a4795242658e3f46ee4c3dbcd3fdca956a5c1d71892ec104a",
          "4ef53fe509b032fa9d0f44deb1a01a478591271b28bfe658f5c4c80ff72f8587",
          "9c9409eef8479def6605c1fcb19ed7c93693a974f9c3585e537333f559ed63ba",
          "47299e8af0acde98b92c7f9ef0febcf44aaf8c02c59579fad7102212387b386b",
          "7a84e1c7e19aa01fabc3b8bd3155b24b8b0e79cb51a2d7d6394891b10fc9145b",
          "286ccae8ec093fd4d2053d354f462bac5e8707c40f2c6a346996f265a3950d6e",
          "7df2edfa8d35b8992e212384436478c34d742e538da08d9d756ec7833b69fafc",
          "86e52bac53f2c3a921a889fc47e327f273f2bc611cf86334f37af37d901d062d",
          "076c4cf67db75226c74ab506dea9a62b7b7515621b6dc1789ce803f99d054192",
          "b3f6438edad636d0316d21558db541f81219720feb0ecc63a03733df1e85003a",
          "0093150daf0801f5e8fe34361b0e7a08d539439fee63e9b9cdeaa08105ca060a"
       >>,
       "300517c7e929bc3b397f3936466e6b7074e6305638c9d52812156240c0167a0311516492800{\"amount\":null}",
       1,
       <<
          "d47f5a9c2cfc0cd83ff0a1d3409436f90a98be2ff878f8c61f1d1bfca75d3449",
          "9c3e2381abde32d1948aa1b2b82686bd2342dd19c3d925eb7b02ad698cd03bc6",
          "adb290282d42c7c5231bcc42544c5ffce0ba105dab83ac8c403ccc503361c52e",
          "3c7a5547f2c1cd3b235829d0e7d0f92d553ff34a8a0dd33f0e84c7d30ed994a2",
          "da55498b37819b22c09ae2fc94b0ac914fe48653d5063a44789ae747deb73a2f",
          "79592e6e13f6c6eb0e330a33c63fcdb08fdca740b5af901e7baf6b0b226ea13a",
          "0c402e28c211a806769a66872a2b441532219952d532c60c492320cf840196e3",
          "70be867cbf71e2951fe78ab5e054e821833621373262056fec4065a192f3f791",
          "f2cfbbcd121990bbe76194f5079de71758ca1139f622c6f4061c96e403bdf487",
          "d3f23a273b28b0a356b85c55cb20438df9eefa3a71e8359c0f7d024c2e270ab4",
          "6c8325879133d28bb3791e3049d94fef81be6ea4f804853104e16f8302279fb9",
          "50cab8a4a287f217eed406c727e6761793fe5ba2986811e4fc57c4fb5b665f6e",
          "792f2ab36c5b84c00ffe7dec2c15d4c3d856f417967248df5c875710cb9181ce",
          "45600dc04d46c7a6d933ac58b39225fb2a2886467f70a551aa71ddda5ff00c33",
          "27a4ac9ef0e03cc694469a803b6b3f1cbe03bfd2acd870c655f740c2f336ddc0",
          "6fa3b3ab74756987c2f84891e9dd28bdf3324585fc958363ec42cde29a4a8848",
          "a8fbe1be510cceb5a01426745f065a080fd62b47b2cd060b591b147ddc0f43d1",
          "d855b2cdfc4f03863325659c367683172a8278dca2b93d80cdd52436cec8677c",
          "93d262bcbe9a1405425fd3504e356fe9e5d5efe05460e2635f2d7d97334a35bd",
          "05714058c2baba6bbc1af65f3132c26fdbcf01a97c5664166f06de4ecc57544c",
          "606e3087653ea29dc3922ead2d9fb78d90ef4d611ff656a90174e15e24342e89",
          "1a80eea16f4513cde8f919d12d9f975ea16ad043e648de6305757717b3151d6a",
          "f0f482f3e3d2cf042b72137a9674917f012ed4a6aefeb11dd92acbc24bd518ff",
          "1e1efae1156d8662019cf63402d01a05bfc351e8482969e4c57197615560a190",
          "df7785e72d7134e7224c26bedf9f8353be6991f0cd30fd82cf1cbf2caff19bc8",
          "9bcbdb7c9fa895f31d5d45e75a1ef76a6f7292da0def567bf3f22176ed58a10a",
          "7e0ef3317ee1070f59ab8dda3e6631d1f81e7acd600e4e6840a26fa87f81bdcd",
          "badd7ad3aeaff35d107f574821e9be0c65bae2e5944c318e591cb5da2f2ed803",
          "714476ed40f84a471a5f32c595ab6030f4561cef5fd9a9fab0ad01ce8717b6cf",
          "852adcd82d9b6ee774d99442bfd7ed81860d5f8158eec27f59edf4a1af95bfdc",
          "0b83c3dce40ca0df6f93d9b4584378c5336db29851220bd6d3486b97d8699131",
          "29dcbd3810fef25e956e93b425b3241c09c4a93e6aa9ea8602552c8b97768ee7",
          "491768d0856ac80640fb0ad64abff4956f6ec288310c06184b3a8a31862300fa",
          "7b8b6522ec3890a61ff0ffe716cf33d8655c71a6920908b50ce7c766cfa02935",
          "2eb8feb09a26fbbbc0f5dcebb7889a038dd9076fa070ca126c0049439868fc1d",
          "d1ce2c12e2158a5d9c47777f3eec7cfcb38c149020a41c91455c5da328a2c4a9",
          "71e9c4658109aebf2911c13b9a1ecc139bbbf804515893ef4152ed647799ebb9",
          "73b63398b79e79622485233e5adf193fe58eac3b86236458a82f4898c544e7a5",
          "491267dd3d0c674f3fee3e4a25dc3ca0b035282ece3643e0b54d2674e20b539f",
          "dda03b7c22becdd3fe56ebdee48a90595edb27696e2fdd974ee4bd210572748c",
          "ef7f9edcb28a03c215e071592121ae7a3810273420580a6d3ff22f807de6142a",
          "b190aad69358a87669ac07f52c467de0c5c2410660cfd130510ef29294318ec0",
          "fc6d21df6db8edb362ee3924c30d53c77c7d92a4c162d5847a035a77df1ed5a6",
          "3adc0f59d241e286dd2556c8727f9b3d811bccbdb42ddfbdefc9a07ace416fd9",
          "29b369af82238453b46d34deae5ff67ad9e8bc653afc99b2ea6b01ae8eecbed8",
          "e830a43d4654c27dad3a255aac2a97e0079dfe9d2d1636930b838a5c4e72cac6",
          "f57567add02430032a9a3d397a887bfb7b1992d538d8d66bc4c0beda2149ca7a",
          "bfde53de65b419a6df2cefd4b1deb47ea93ee283d014dbadf0ddc26129648b8e",
          "70ebe01c3bc504f6974bee42e190f46e5dce60c95bb513fcd1e496379dfdbae8",
          "9de3ae49ea4ad5fa4641f5511554a8e39cc853cac11a35a3efc46c420b2fae43",
          "388d95d63792f1afcfa7bd2ef50fe610edf2655537e76f3bf37e1e86b61df3e2",
          "7cdeb4b3000952f99a9c01b5c72cf0fee2012449b1260e525a1aad65d77eacd0",
          "87b746da9c99b54ed1ece4e8f9c422da64c2f5c5a369174aebe0dac1d992527e",
          "0e054b929ca9a9479495cdee7231a2d5d22c4e48a83358457c5ba3bdf9ded0ff",
          "123407c6c27561b6d7a9d9d9b47119017f26fa7026ff4352ea7b948a08b044f4",
          "5e428ca428f97a245de1fc8922cfb86da9832c01602ffde0f0c2ad0800543c13",
          "61694d531c69243fd88259d4ecb1263f5c7e857846bf6009b98adc88d834a39d",
          "e91e685b3b652473aa525be1924e17802ec57b142275b4f12094c214a9dd86ca",
          "1032ef809affdae4d22db4ccc1788a9c1c94db73f828512054ac71b9dddd1d89",
          "b5f68759d82ca5fed7266f6e8e22ab1dc98911964777a468cd98fc25279296d1",
          "83a1234507cc42f84131084a6c9244ebfba514fbeff0be42f57975e99af77b89",
          "1b83b391a8ad0a9aa4e381aa96ca4a85e64ae528fb9bc11f249461effc6514ce",
          "f116afd838ba40ed3cd94d74d7c69cb4dd8cf2e4c13cb0aba2d44a5ba062fa48",
          "f5f3f011c6fc908e51199f7206ad8ce8feed683ca00c217d7c249c8b747f2e68",
          "d045464b5341981b098abe4e5f6282fe25eae5977faf9de287e0b93c8eeed479",
          "92afc1c0d77ca62c7f5c54b386ff5c7da02fc4eea88ff2cb4f494fb41a6ed5f8",
          "fcc5957258f58d34a5c467bbe048011f32de66a3c123711d007be31e389356cb",
          "653a2b6a4cbe75f801079bddb1924ef54729bfa6e8e8482b46cbc805d5c63fd1",
          "5c3ab91772cab47aede796b516efa4b66ca7a6e4624ba33e89f4bd36d1d61d59",
          "b26841723aca10f084df0f289d4ef4d4894ca2764affee634219ef843a6f442c",
          "a027f006f0732f5b1d4e10636d25512a6433ccb32981b92286fa194af426b2ff",
          "73496a1bf2af9f94a0238e858cb637ea10eff292ddabb9366fafe466d48e28d1",
          "b6994841e9cd5c2e6eff315afaf401dce041fc75552b005ef5e214df710b0b4a",
          "21323a162367244d5bdfbd3ceef4f2a013c403a98a9d88a7fb2aed0377cc3877",
          "e6203b6ccb735d0ca8f0aef24871edbaf783d5baaae06d3444ef044783150979",
          "73cb754cf294d4b0c972a6d6e46ea132fd488ced0230444849b7c33dc1f94bc8",
          "96dbc3efab784488f18384ccb2d493f660940a3a5aa8ce51ee0b29e001139f7d",
          "2c8ef663055681c51914868bd282dea4a385f70e7b1ca8c6cbeb5d76c7c9975a",
          "275bbf6225934c1d4c1c11a6ed580faf9253d296cb79d436b5a540dfec2b2366",
          "2270408c02252080416ac0d6e8201a3b6049f10bc47df685c45c3ca88d9c7dd1",
          "f165d75d81e6cf186d892cac070e70f263e329a9b19741eb94cad57dc5d78f5e",
          "b6c28c643726582afc6bd18c987775ceed40cb074245ed1e795a36253a5d4420",
          "17e038b5359c72d5ed0d0093a655fca3f5b7ff706ba61810e780c4a111989e05",
          "3c72890f9cd5f29ad15f04299b0ad898cd8bdd7a6b3c405a957a5d80e72b9d9c",
          "9dc1fe9246d3a639f1c3dfae28cf426a514787c0aa2f3f30550dbb819a51650e",
          "daa9e740fdc87a683fffb5cc76efe6909548bcfe8cc1702a2841e90b40782a77",
          "4d6346335098558ec46ea7af52b3d97893a100c1fe9c88baf96aaa0648b8631f",
          "b7923aad255418efbf66e8c11bd6ed0e3e65df117413af8c868e79e450295b3c",
          "8d0ce2da35f145ecab6ec2057829c00a1c9b0538179845033f89ff99b19cf278",
          "56678199b091fb9841500632e00d4cfda6ee24de2bc92255d1ce1ffa1e7d0a5b",
          "fa55734d83f02623942918fc906619bb01725ee078ffdb13f20980cb9cb64c2c",
          "6ef56aee85210f3725e5a9930d776a8d6c8747f2971131c3f2d6ed3058b6077a",
          "3ad03a933429433757d03486105ef9f2dbeda8e219605711c3243850aee9df71",
          "4f7f04f7adb5d2c1985be15247706a8decbb4b44c0b05652a542dd9974f32d36",
          "e21c9b133546ace47b3f9713833308bb0f687f32069e00bde5dba94174cdfece",
          "060191679d6e6896b40619fc9350f1f1cc7d1a49505e42b1618637e19ee09cf8",
          "b474109bf9abe0f344c58184cf2b44dd77113610ccbc41b1c89487afd442cd40",
          "de6cad7846d01b79ed2abccf3c32485d8003127a3b6ef3c1a6d1f0ff14de3dd8",
          "2468eb228b42dc1f70c75fb383b83209b9da4171fd8444d4d6ad33df9c56cf0c",
          "394ddbd4fa5a281c96eca584beb9cffada1ff4e7a11fefdf09cf8cdde3421ba2",
          "ac3af8bc1fe539c4d74fe92a131448bc6c272c0e05760754c4ae7b2af56fdf9c",
          "173e64cbb837f67c77ccb2887db2816a0c9617c90f04f065d8416252dbb0ec13",
          "d2a896f2cafac6b4f8011d169ac7d0530fbf37aa58ee67d5fc26b2849733e8a3",
          "c64a437b74e6f745bc5c71dff590684e0511187d773079f328fd0730c9aad236",
          "5469dedacf15e572c77bf171f19e71365b8d8b6e6e90a27fb7b3c9df42ebca93",
          "2eadc5159615793d514053e0946dfe556793e6da8f765806a540ccb86ecbe1ed",
          "718b44f20fb3c076bbbbde67c55bafcfad67153e06eb51110bfcd60efeb2796e",
          "fcb31c1c24eb55f419736da6a903bed3e582753c108fa6dd639e3ce51fcc70f3",
          "16b013792aac3dea6dcf3f0638be7aa00c18c12e54e39fcc20543498f5745fc9",
          "b2eae161214400564385ce67da915350016e66a864f50b6e65f4f24b8f5ec3a0",
          "8791e9b92ce27cf4f8d00f2293bbff9c75cb415be0c365f28720faef336d7a40",
          "99c87888246c24a9330b9dde746fbe90c8464faf9f56573e5d56e58b30a25b8b",
          "41fa558916a5281e1f9c97d173e605aa45ca6e43223bec2c5f0149148f48a778",
          "66cb85865ba31c781d60130359aaea9a8e06bb3b0edefca9e703214c912058ec",
          "db547e124899732b1f06241fccd3aec44852d87065ddc7977da5a1c54174a59a",
          "f74b62d4ca526a218d0f3207bac846ab3893bd3d7c00b9e84c6237b67ea9237d",
          "fc8aa627b4c6d95834450fa2e5b9bdc9de479a71f96cb9277cff588f14bb1d89",
          "61eed60134db65d60d68cc341a59d774f760413595aefcc30f8ee098d1a1fba5",
          "31a270123d27b1c7f0bd05d5a650286be2b4331dec1b300dc58132659b38ae13",
          "db48a2a3c52c6aaf976d321df6d4be9ffdcfab3955e7baf574e660523a2427ab",
          "ee73e3416c6c70e043dcc0a9aaa7a57101550f88ebd9905b26ed1775c11c3cce",
          "e03cf9bbbb5eb40deace2b7f0b8f76057d2624d6942cb7fca502458356b4d564",
          "631a72a7ff38b629dd299754a438d68dd775a67dc0fb19a992ce17767ac17176",
          "ec141c22e3a12c019c2c9b6ef56f99859ca855457c736184adb6e1ef4bd7069b",
          "4d9ab6225034768bdee67c61136ab748111d322aed77c7104e9bb42a815f7717",
          "1ef493639880fd255227b2c537149b2ef85c075ad4acfb0da615d6610ec3682d",
          "61473b1d9199c01fa8404e1ceaac92700871a1e8f123427484bdb4e4d2f9d43a",
          "5cb17dea726557ca08bd782c6ef3b9155ac43286995748db19722b84d3698097",
          "2a1b7b26217d8a13b8807841b389b1f12876451917bbd16ae21cb368d43c356f",
          "40f4f64d3122a1d50a5d02885a3429696ea14ea07b9ba10275b71d041b736783",
          "1fa28f792a3f383f48d8c10ce95747b97e20091cee447aef44259d8264aa479a",
          "4cf9b826bd55fa032216dea2c9489a05196339e5880b1aba8e1e99d35ba38211",
          "8619071aa4696d9eb2caefb1634ef674b33c1498d6eb915abea00e4b4de129c3",
          "ee37a55e6e53c6f6f3030c60b2665cee1bf9db17172188a245dafd42a260c4b7",
          "522768ce57bfaaee6ce35731485202d555788ecdaf8cec9c1b08d579aad21c81",
          "54bc3a4518e3610b671b296b87a49ec805d967e3697eda4331b6b932c9441a5c",
          "bd7b5775340e142c4aa393ca11d44e80860cbea52fb6a98d11e78fe932aa6480",
          "249b240929e2b504fcc9b767a9ceba46546e158564a9ecc3934ccdc28984c23d",
          "8588ef49da79576104d5113a60b004f24d9a1f93a2b8fc852971c89e9f2d5d90",
          "402fa71bb6f2d0b2dd251fac497ee7b10e88103735c126e7f1adb0c2ddd07e5c",
          "acd5ed44a464bfe875a95e12d8b83381d4b92c69016b47fe39a83f25478d391d",
          "ee49aca4ce5259243c4816bd5e9a7e00fcfece28d8ff3ae2f158f34dd356f93f",
          "c4b15fd15ec493d0d7e4e2797dc375a8a6b956477dd01f9c00dd8abb07c6d620",
          "866b2dcab8f72def9be432b86789228771de5ac0d825fb48ae9bf9e89e380990",
          "8f7d52dd5e2d9bfcaea6726caf36972cbb1268ad08dc009c3ed89cf653d6cee3",
          "523f44b28b4dd63cc4f606b5971165d83671820f63d15d60f2a9d5b5878a83b7",
          "b14ce9d046f956d27944809e9b193eda9ee3a08c5a178c1c61e4dbda53589959",
          "5a5d915aeb8c5d568148cefbaefd802e62a22a09fee15af34f425c4e2b9412c1",
          "71f8c7e5bd1f0c0b71e531485cab126094d0de64419fa9f77e116ca5fd004b14",
          "f66c407aa53725e0681eca899485b98779f00a4f9c5d6fb7d00700b047462b65",
          "00009497412b9ef10e6256b98c23d306e423e98b0660d9e77d6aacf74cd772a3"
       >>,
       "300b777cfeb92171f683b41f895a293c6360f66e831e2636d44e36d579e3608a01516492800{\"amount\":null}",
       1,
       <<
          "8937ee7d8713d3b49284177ee99316e1b964a7d22762ab9ad34a6c026d08878c",
          "449d83c18525b54601e5c3af97ac522dcf6a6f97a2642d3e587ceae0528071b2",
          "d8fd7f8c0e0bc8edfdc2b144134093b9e721275d48368e7871ebd67079af48d7",
          "9208dcd4f5817c22190e285bfce9925705eac6aabae30591de7e785bac28f1cb",
          "1ddc1e49f101185bc8871bfadb1a21176fdd9a5cb4ef1dff35d712b139eca2f6",
          "86088d05a734fa7c7c3d95b3612a7e3ffc36359102edba3d68bef410716434cc",
          "7184e763fa90c1e7e3beaa5fc2454ebcd663c975a3d8fa324201e733b7470f49",
          "1ecb754466fec86f538392d2eb2482151ebcbe17caf955bf252d1802526fc26c",
          "e01d758e839eb631142007c932629640868c72e31f1f588bec897014fd8916ac",
          "253c57b2f4f7de6eb50e1fbc7efa45e55efb0e37ede16a84e05cdc702bd66182",
          "d361a14e04b2d2817dc38d0525fd0e7e67f7159a038551360b53328319c73b9a",
          "0079f98dcb3e42e48cc9bb1f853b02f9d2efed503ca574d945dc96dfc19e834c"
       >>,
       "300f2fd460d4c9e23709b86784e9092fe21338836c65b1fc0bcea2d90f06fcf611516492800{\"amount\":null}",
       1,
       <<
          "edd5001f877f9506042efa630db7bcd71e9b499f546ff853f78415a050932219",
          "70e7872646f3485e81999bd5bcdf55f9a3df017caf0a8ed1548fed3821515a96",
          "c917b9afaf2e68a0e1de56ceb40e804c25981e7df178ec866fae0f5e4e9e9f62",
          "4b6d5e6af6d415be4bda5c8a16382cbb96b38f35cf3ec2fcf8de5f6ad40baf5e",
          "ae6d793c38eb1634ffc1e8e3661b19bea19184b87ebae0ebb36b95fa6464d3e0",
          "ae7e5693dba09282de8e20e815c437ba1b588c4977fda89fd60fc7a1bd63dc3d",
          "c08544d756cd9cb99bb8abe1834138f52f966a9ea1888e91bbf7892f6ca976d2",
          "d3da120e77bdda8ce6dddd864be6b4db697ffdd7a83378023f1a5ad75676f4c0",
          "d97b72dd8315444097d9048627b479419c96813ba1b7b35841056947396e3fee",
          "53f36b7a1fa83b3e06e466fa849fe4af0d5f0ad2df1d610dbfc1782220b628ff",
          "a05ad92c9452fb5c7f6418e66d2400fb8990c76dbb7e2e46c1f09c95bcb587fd",
          "65397f1f3b4fc60eba68d8d8aa94605d42635dcb0fe76e60958f713227fbf8bf",
          "05e274a20ee5a90ddfdca04f7a85b72997c91a3d2fe831bc1554b4f7a1648a97",
          "ac85900f6b2dfae81cf8c8792382af5f935a21dcf987e060d11e9ea5eb628edb",
          "bf013453b2ff6f73096eaba3ac3dd58a5a99868d021dbb8cd3a53b739fe95ef4",
          "34a48e021347e415a0b00f4ffbd1971fd97a97aab5a8fd7436828d07c50e0252",
          "602f109e24741efeb3b5764a5d6beb3933a5ea810a0b16984e56cea74eba0b9a",
          "6a6c6fbda704b60a441842a127491a8fdb3792a008427d4ef9911786e3ed5559",
          "c8fc24e4a5951b4f954b83ca8c18e42ac0dc7465fd397db0e724f612a6cba98b",
          "51cc4970bb33a690cc8862d1d95e92c9fff97d753cc19390e1762e87355f2c4a",
          "b1e4c6776476c2a5b5867d3793adc112b6414e481623bd6b4afa762c9daca93b",
          "1e9752f6b258011d88455addf6a9ca3b8401e22ff63893b7147e499b0a1b9bbc",
          "7249b258befa2fde14c52109bfaac4b5242683f6685639dfd6708ce9928de555",
          "3d45ccc46c012df5ebdeb2b8a8466c1879c0608671b17cee72b87ecd52ca6a28",
          "9bfe1880cc26c8780efa2eb9e45c27425710d6a248ac4a44e906228cb5a25bdb",
          "501f33b73c72487f8c088428ad933b9197df19eb02e5ba5ceec381aa84a14d7c",
          "787ab04f3f1b4afc223f9269b98d56847560221258e9e9e2a0b104211f0d48db",
          "6cefc36dab5e7d708cb6f5a3da540248cc1f44539aa72d0795bd5916267920ef",
          "c480e02b67eb08aad93f5cc2439c764ef61722264a37cad42f59b679742e10b5",
          "2306364f924a965034f4bee439f8a8555be5d913c6c9f7899d07e592c2d0180c",
          "c09fab9d008f43b8913b973067dbf8050400d8d71d2c474968fc471ebc9ea7d0",
          "8c7cb5d1bd582c6a60bbaab9237354662cdf4e13e1d1e2d1e505b5688327b361",
          "8a0b0a2c30b1a39e69ac6f8ad57528459610028226bd6d2e32d40e3dc2fb3564",
          "68548a17160b46b6343c0bb804c590b125616a7c602179c053615a55b36feb13",
          "b394c7faca197c58145ffc964a43dc342fd4226eb157eb7230cb1de226c89d71",
          "9ef3b3112a41a519a8a6d0b902cddb8ec87597351a11669ff352f315a69326cc",
          "edcd082d73049906032c8416bef7cb3c622929eceec7b4b3aae215c3ba9f976a",
          "bc8b1bdc972630ebe3ff1114d7d72e43fdaab24be9a9f221a596c56608b62db1",
          "729e773efb483e651d2b67babe3b3a485424948bb0d5833770dbf9b8003ffc9a",
          "802e50dc361a4a5a6c4631fe7bea23d2fd96d78b68ccf05f8e5ebbd592ee4c8c",
          "2319de312f86542442ec80d0300b0fb78e639a2c0b953b3d9733471aaae6d130",
          "71cf4f3f0f744cdc3a5d1483ff5cd1880931182f4e357969c201e6c381f7d309",
          "566cfe0f50c4eb03d2147a7d0b80c0415e6b8584762cfbe71be116edb33cfa6b",
          "da810a52ded21f1aabfdd409e61fc45b57237f17cc9f932db9a94a4ca2913994",
          "8489f15d07184434c708c14bb4f255787322a8efa19c6c8fa34604e341766d11",
          "c7156d35056bb26c3bf9bf5e6b66dc86d582f8cd9d9db8cf879f72c85cf4c49b",
          "1f0794b4cce89ff204b5fe1dc33d4c6d209a362a565e4a7ab05d2b5b33b70f24",
          "08a1c6e5b48c142545fb695daf018e5b2d67c705889bf6cd1dd638ad7a78ab35",
          "d78c1bdf55fdac6773936a2b8f98c08199b633357fce8ff28abce25f046cd4c7",
          "e723d4b30b78d631cf8e5a7e3d05b3208d11b6df5a8355ca8864b8d8f23c14ab",
          "271e7a4777728bf7792f831f3adc7136950500563aa5efb8c3e4017a46b12992",
          "cef427cb449d311a7bd4e906613f7cdeb773283e2966257b04efda85e687ab36",
          "3b9627d8299cb14dfc34c884e6fefbfadc2080a015e4108c7fa5c257305f836e",
          "8f02c6472bd0931ead82b7863e94b1b1753c3a4557b5f7d883e181609222c16e",
          "253366c684a6f21ebb455a6c53b6d64eb25cac06ec6e68fd45c1d430749016b4",
          "227223df6b47b3d81486ead5794a52eb9cde65d699868de30ba007be9306294b",
          "be049f4ec4ee229ff1ac14284669dabb72a5b5ac3c66b9143c75e57dcb74c18a",
          "84568a4f5b9a32ea471e8faaf1a4d1bfaadb0f6e3b0de478a278b23f815dce32",
          "1d3b101e354c7c3347520794a6306f4e79fd22fcca881bf4c347210358d1091d",
          "7f355329bc67687bc22d6aab6d7483540579e0479693b355ca30738a0ec4ecea",
          "06f712cae81c44aa324450472ad98ffe3d4788916383cdc1af6b07649b3880c1",
          "db24cc39d0c748e6f3d9298ff229063868edf754373014435c50b272f7ce0e4a",
          "1ddd09a45bdac1a383fb159514b55ba3f5f339eb608dffff663c34bc3225e59d",
          "e5011288c4900fd72c3fb1b4f057bb4c39aadcedb61b03072174cf3e0c8fbec1",
          "f19032a6666c685d4a79ec8d9d2669d2917532a356315f69921ebfa74327e060",
          "65d498d9e3c30c427f887debdeec1ca2921cec62718ae0e81b0e41553b976112",
          "30d47ac81a93cfe2ca8f969307acff1aaccf9ff08460a58aea5aef1055525799",
          "5605a7a72255ef0a6242564f708f98bd29ac050be5d829a2f0348d91a1a4deb6",
          "f01795854b7b05134d74d865b443c978dd085e27fa05f024af5bc29c4da2c39f",
          "80ee48a6c851bbb576af21329ea2d84cd42ae3062b8fd548df8543569de3402b",
          "380f35c3367fd2795baf94e32883929f520d20187b46507b9e925b470e3c81a9",
          "e57f0cb576b48e2847e44e0fee5acd8ebfe1ea47b0262564193836b5f3cc6f74",
          "cdc1a313edbf578b010c39ca11acbfefd535c9035f606e4e3fad09002921138a",
          "6f094c5236dad670d094410e279a3931c51289e95a75f4a1a1ca59d012a68c97",
          "324eabfec1b9f2699039037a1e8b83da2df2e9e86a5c87786f49b2a5975034ea",
          "738711ebf4643b1c9300b4d4f788ec7d38f819227b8fd6f03fcebcbc97256878",
          "2b446bbf6c547ce29e0fc8b109724df1844cdc5bae03110b7ab43507bf01e938",
          "36373b7e55d21c5b6db08142e7a962b02fc54492c7abe7363ce813dad4ca0570",
          "c33565d1b40726d696b6696e0187e7a6b68d943a0569fa7a9ba76f53f46dc0bf",
          "3827c6b99b6e99654495b75947a7ef3021e1c4dd665f1214c51fdebeb3f2d9c5",
          "d0ba7f27c444959614dfd8a0c774496a583d57adfaba4722f23e496c3b7b5e98",
          "1e3fd66d802d583b1a6abe624269f16966891e63e1b6794ae6982d3281fbe16d",
          "49390090771ade5dcd246974a3657db44befbed17cf20236aec43c8b3c0fd131",
          "2fe4609dc5ee91b8d7d1b30f9fa157d5d5db8c1907f21d2d68d885bfb8b7a5d7",
          "9f05a11bb9758cd1762f8e3a5286397a6ea49be0cbf27991e10881d7812badb9",
          "1a9186d938cc1c675c1dc8de1d4ace906b1e9e76dbb3278e1cc65ed1144256b6",
          "f5da614b41c5cede4d2541006c9e0f9e1ec8b7da5b9db4d458d5f7b434d20c9b",
          "88fe7d287f3911c937557790f59b461f1e23dfe2db7e6ae2c234e199d65dd6c1",
          "849b2059cc72b55e61a6f657904eb32a43d3fb8f33ed05ed208da8b6f73f7c6e",
          "71c38e1e9acbcb9178f4dbc178bb221e61f6a74665f467d483b0df852f104260",
          "ea6ae2a132c59c3abd6b78c7ec1ccf38243d79753862ed94bb98326304c3e76c",
          "79bb48626b5a002927c340635452cafa06428806957f31fca791a2cf208ef011",
          "75740f7d5547e78a7f3e584003253e09bfe524574552acb4aeffa2b080281f3e",
          "81711a9c0c4ed77bed4548dc39666f6b3312c3c44d6dba77f8861a92e0c40db5",
          "4b4f1492c31ba460b6616f184800be25efb0e125fe36d262080d93df08cc0d40",
          "646d3361e179f4be710588f810fa0359652a6a02c266b0df6fa65c1b0756abc5",
          "a148754c878dc9bea8baa1a44dfb1e02947b96c5fba5f770d20d16682e3dbbbd",
          "6a2b7b001ed02b61b056e538754c1787b77d4277318ebaa191ec3e430fde3091",
          "0c2b0696b813a105281997a64bd4d6c0973fd6131e559d6d93f13e0acb441c74",
          "bf472b3358fb48b411796616f021400cfcac0c15ab217360d68d694e5e470e9b",
          "902bd3d403a70ff06a5ec163d230337e43be540e9679b19bf3641c2b21269821",
          "dbb792fbf095dba3779cea73a75f8947db0cc4efdd1ee06739e05793ab4b7664",
          "a3f187fa79ef6fd4b81d5a66ab23cb44782a8184f85712a0fd1ec0c22307ea37",
          "c1f93489143ff501428af45024fd29d80c864abde7eb6b60369aa58333fd3e0c",
          "7ea79bfbce1871d61aab7112800e6c31146160f4bce8c3a90e38e7ce75c8579d",
          "d818c3d7968527a696db6084ee034f0853073a38a1f06e1b130aad744de8b904",
          "738affde6768b6a384134473a0af266b1a2ff555e72350fa507484c452f208a7",
          "1b57c6815554018bfc10c736cca327a057400d40b2eb29417d731f161a2f6462",
          "d052612a41ca507f126124568087b94e1a33606e4370d4c974e6f6f06c5a6aa3",
          "f2b3434f386e17258be529be5d99897652e78e13b1d3b395a9579c537f8ecb45",
          "9079a5fdc2460a7a31e95b53ed053760aa3afc602c28facbd5add5febce0895d",
          "e4fb7428ccf90641c5be91bfa10763d89ed819db7b4830cb7fafb4c8da1f741d",
          "a4c227d84a309b6f761e21b5b09ddce0a6284bb42171cfb51170adfb60b65405",
          "c92ba9c3636730bd8ff322875823da49acadb81bde368e694b2a40185ee5ac89",
          "11110eda5c5a1aa4024a7b82ff1b716428711acd3984734f91f8dd2d1cb6c16d",
          "3d38db4bb3fc7038dadb1700fdac7b9460e04ffdf3e3bdc96e7ccbd06de2c979",
          "6d7de23c0641f9128f48510b2c977043c49b6f67b270d3cf940bb6957942d284",
          "61d869e13e905499081c0129a182c7e9ec4f68da8030052c3ea26e7ec597dc44",
          "4e854025a103f48b2df364d4c2ec225d65d832c28c4c51679d6f065efa857051",
          "3063aa29a0625f4eec54b2ed5b0189baeaab5e9aa7bc22c5ae2e14285d7e8563",
          "5d04eba0d9882b451eeb4f056cc1dd5baab6a0e8980da9c552653a54502be8e5",
          "804185f06b2730d52dda4148723c3965d60024c763a84854074e793a16b4a9d4",
          "942ea9b0a6c44da59846b264934c081caffd121b7223ae6422b58dc69a100c99",
          "6126a04620d86472eaf6591eff80ec8f8e0abf1c97226031b28290e3af88a752",
          "3dec312c16260494025a1de5d0573d2e0d6c61bbc1393758bbebc1bb10e292eb",
          "dc0ae5c0aa79ee43aeabb325e94557de802a5b7614b4a8aff85fc0a6ea8138f9",
          "eef9258e0fc42df44a34beb4ffe92190732aa5c724ff42fd7d19286fedbb306b",
          "8115adeaa8c1aac3a05d46be1bdefca9e624f340efb831354b5651c71c9a49af",
          "08a5ede6f82593afe4617043dd1fd118e39fa2bcb9dfd61b04400f278fe35436",
          "61cc54cd151671f732f6a1439a85896e6fa87e5224c9c5e0eeeccbe5b7be3fc1",
          "84e7fa6c732e1233fe963bd16da0bc1bd6789d4de5e36a64c5635b9d6ba63d6b",
          "23214dbe6033e588a2c4175422f8c7a23a7832995347c5daeb735c6ed5593877",
          "4db6f6f65f14608057dafb643bf11e48b94e9b9b8f6374e96ff52827bff90519",
          "ef7d22199dd762ea5ed4320b152a47ba10d5fb36ab8fc29c6add6ae847974c84",
          "74cdd0ff8de4a91ab59d4241163298bd23300ac527b030f1dd878a763e167c86",
          "b0797b2adaf14e7af369fa4b2417c3f58e6172e58019345ce00bcc83714dd33b",
          "038f72371253f197ab3102764f0d3a8998c053322f7eebdb15a7847ac05382b1",
          "5c8b1a7725907db06a25a36f4fe79ee87ffaad1437f6667da7d42cef29d02f8e",
          "bf4f34bcac7613e7429c38dfdd86dc158169c5d365b8f7b3dfae1b9bccd69140",
          "ee4f5cc195c05a5d66ec0396eee75de35b478685948ecfcdf0419f7ae5a977aa",
          "3e08bfb0d6cb9eaf67133b135999299536c4faa45a5604daa731e79c9cbe66e5",
          "44e667f3ef7dfd593cd63a839313ea124e466a5a9b28a249b197ee72bb4eab0c",
          "98195661c96c0caaf6fa5889727c49c877970329359d644d3955dbcf13aea8d8",
          "6a3ec9f4fd2bb94f0be6f0756e216e42fb8ea58846943b7d61399b4f0442399c",
          "9584902a07e5308aec3c4cdeee06cfef38fb2c8fb0e62021aaea6147fa5a01ee",
          "df42477e0b2446b87f329e5bd5446511c443a3fb03e4c768cb866edb8cf6051f",
          "261fd01ccbc85bb54c465f0f0d598dc53baf3d62618ea06002024adec7285571",
          "59a9312cd7588cb729539034e2c509a567c64d2542981c0bb832a1e5140b2746",
          "075c61055b177bf5a55e8f6dc9fcaabe074bc5a201940ab99bd08b85cce62dc6",
          "0f5a7514baa246160fdb5a54422ac7570d47e6369546c2a7e9fda5575fa3fd62",
          "9e5d7c21033a6690121a8602cc61cee885fb24eac939b547c6520a113792a270",
          "d7d32b49fbc209aa0ac03ff81db924d02a3b42f27c986f78de1692230f2ccb3b",
          "984c7007c72f0669c5d283b005abe6b15ba2a610ede778482844fb58b692fbc0",
          "0b22c4774a5cafc25eef2010f177923ad6db00809d89c4011a634444d7ac79c5",
          "4a5f4ccacb60d8fca6daceba43bbafc1f2ded9f141358db2830205eb24a0b88e",
          "b364b7cc5a47bd5608269a7218ff5bb01c20f29c7b52a483f474870099ded9b6",
          "5891c1eb073b596688e9bb9889700506b6ad4fec33257eb944104ae522741ee8",
          "6216fbee049f04855b5e1e98aa61431a404a061f5000ea51be84bf396c63d559",
          "d7054ce33bce3564dc30a86203ac3e51c83ef435417fa82017202e138f8b15b6",
          "644e1dd4daa2f52f615415f8bc886205ed484e245486354df8ad8889b6fcdf9b",
          "031fa8e7a89d6f9c04341aa8594106b3215fd7696fd49c41b1bedb2c8b224291",
          "a6cb3ccb8d82680367654743d2bf8562f0d1ba1dc67b7607ab90799cff3c3937",
          "22445bd431d114a4db9b85de7d3b1001c2b0110ac436016cdf2ad78883425a50",
          "65c749f5fb7c9ede5268a29929d8436e19fc4da1d052159319a51a1b30d84810",
          "d280ddec1ce8f4930b9c5325db0aede41e1bc4880d865ee0facd2d43f1247a3b",
          "32c363e5f25f0a703ca49ad6f8b4ee611e200ce12ce2368f0e8df6cebc5836e0",
          "d0afe5eb2fd521e869f3658e6b93fcbe7b125935d694d1f4d188cdaea421eeb4",
          "23ee6281c455282c6360732aa2d8ee99ac8ca50b34a0399b27cd21bba62dfd3d",
          "f90cab5b317efb68e2c8a1358e5695c64d342c2ef70f6b163a72d946171ac630",
          "c686d39c9f8a5b74a647dac1176faa58a5474674351de4a7cf644d5838b1554c",
          "54e54a64f71b55034092870220c0eb7c7c477d83043579c760a5e6f3aaf22461",
          "b6cf280e55439a727d11bee7903f9d1bfdc372bd20339aede999c767ccbf9baa",
          "15c4fd61d7693ced2f826b93c9d4dd2ec0d77ae9d08565df24f23bcf0d6fae50",
          "8c2537eb63634c8df465456a060f99823154b1102a08340199aa02cef3d5ac34",
          "51667dae1f33a7d06be8ae1f91e6ad4f86b0c82eec07bde0dc916baed5508630",
          "bed56e9a4e48556efc81cb7dac5129b7780b04fce87fc534bebd33b3521c86ee",
          "00ed3ff45599911633650f08def8c04bc3026260dfa32deef3df366215ef4bd1"
       >>,
       "300f33cfdd109a439d0edb684c2ab0320ae323c8a0aa3db9648380e10426d74571516492800{\"amount\":null}",
       1,
       <<
          "5740b3977e140fd2916d6a32149fc1be58c6e4c7f2395d5ece349d52405999a8",
          "7107177940ef800f8dcf1f53bdb268b5b7c14f470d5f5fcf14b71dcccc848418",
          "d41e1c27569f8317199508fac47fb1d2322f0f58fb95b0ab646f81d682bc7cb7",
          "40d497d0e3fb3d21d4ec877daa8906d907f780d31b9ba2b11b5dc2cfbde42f21",
          "fb7fdb9b097e371f3ea0dc1a827d34538990c203aa4ef829ba57fa9940a510d4",
          "2916dfd1001e674e5e5eb261adfdd82a01a8143e27a2992f7034a1db405f66a6",
          "0f8f393bdacb795153af8a17ba3f3c8c201245ae76dde9e1f7f591e3f2bea292",
          "ffa32d3364ad260f62254a306f71eb23e3670280a442c026b495c7289c3e46fb",
          "7eb86d21087a2506fb2834574036f4864edfaaede50f74e5dc53d5e847bd25de",
          "c5b5a24b76f59d69f2a689bf7f842ae54c564ce38d83932e6c19733bb8ea26f4",
          "2f976b23893d4bab560c08840ed3a8bd927bd05d33877b46e68bb31c22c552ad",
          "400759bbe3d54255c7e0fdf7a8db794629d54b452f808268faf54d74d7add9d1",
          "61129d429599c48dfc2143e3a81cf52e1d3368a0344bbb17a9e2c00b683a1c5b",
          "5c70734039e34df8a07d155673491e231d74b67fb540af0f2d1c1089e85fef54",
          "fbdc48beb38567b63059233c24b139cd4df7a15b4cbdeff953668b3a153bad02",
          "804fb50a35966217b19ea3eadd5b1148ec259408d920000f90b7bc37a642b5d8",
          "dbe54e7577065b5fd07641c4ae53448150a889846cd357ccae889c0e7e26c4ea",
          "52de0f1de158ab3f4759e22455ab78cb4a2597b267b5afe400ccabf78f052c9c",
          "e3d79b7f402c5202b6aa7fbbf10dbf55770faeb4465d2edd6086d52d7bbd1511",
          "8ca96765e648957b33c0dc62ff741fca4a237f2bb088444c4b9aff146052f1de",
          "3c87138f14bff8b276639ff3ffd1fffd00b55fa7fe4774f032e1a659992e89e2",
          "c7cac5b8dfe447ba382f570dfe702dc96eca3af8de68d39b142bf8d3506018dc",
          "8aa0f728ecb46eee4128744aa4ce09483ccd887413887be00f0bd9b8bbd842cc",
          "19931135721b04a9d9929cc6a7982c2229b6346bdb47161d09365d9ce52ff4f1",
          "974437fc67a1b81fd11e2042c5ffbe40ac8f9d50da019062d60b45b07dc67bcd",
          "9e4d3d73dcc187286755516d1b891b0bdc9b8ce2bf26ffb381bb78123d527db8",
          "9adf6e8135be91eeee7b83238cb68a51044e85431b86acdbc06706ca3f3120f1",
          "56b915f8d0dfee6f20b4172e1aec9825be12e317c9472a99eb1358db6fbec17f",
          "3b0dd37597c7c3992fd3e38a4d188fdac2eaf0884b84fe84062c38413aac24e2",
          "12ed73a90cbd41ade00189eac37f743ea476535d1dfb18afc23c20a8c5b1c890",
          "09b7632ae8194f8528462c299153e3eeeb247c851cf31fee691f6121f41fed4b",
          "e36fcdc15a171f5549bcf173e9f336c124c589e25e4b051917879a02bfdf888c",
          "6f13442489c57a53f73094c5b45ba67d716a3d51e01a1eed07f6696d7f67bee5",
          "a0495b1f1832024dac35303ba4080cfb878761661c2f5901112f106e6f8a6d30",
          "9a345681a622280f97594d1afa97a98a29e5b5cc65638e0c69f03b57d56d3a72",
          "f5de0c835656f1206c117ccf03461bc3d251c2f447a53ac74e322c80939ab018",
          "80780212bd98dbf2f5f4f5bd873d419160d37396c0b76f3b60b2742947d5836f",
          "0da6e7833033d0c77fa0e85f48120290fe707049c896386e5b6dc50ab4380891",
          "3153be6041edc942f9dba8b1f2e5ccd96a2cc4e854a27f4084d143892d935fbf",
          "5d9740883cc6de0d5d5d140762496edb621251873e1da155592244a959f7ed97",
          "8d0bb85d843b14bc0076bb743e46b83ba99f6ad89247bee6a4b8cb5682dda6aa",
          "12e23cf5866f2407145e942ff39c201e452d44bbfcb4f7d93136164b1b990205",
          "f6dda819af0ff80631e8af05f66ee18902155ef41efb4ae669e7d79f8fb60d9c",
          "a0fe12885465568e1ca4ad380c60f03cf0e8f9d3b4e303d212af942f3219dbc1",
          "d28a1f0c6ed318ec3751e83bb9b3903dea820d3f2ce5700eadcb84a7deb00c97",
          "846503a39a4afe19cdf6ec4543f5b09abc1efbd728ee2368f061cc0ac33b210c",
          "8f743c65db66d7bb35b0ede88e8f69fb6dee4bc30e54589132e940f2a7e8a67e",
          "f63fb51d4d0de42b8684d1ec56499fc43a2789e12f7eb28593a95cdc57501d89",
          "97b3404ee154ea5b2a09b2a4e8b24dc21f3a4259372bc4f04ff4894935e35dd7",
          "e7b9c8595e16f821d46364086b0cfadc3ec72479126ebedede0fc22538ad1bc4",
          "f9fa4a1223fdd3411f90b488f6fa2d70d5e21f77893d77d81477ce4163fcf91c",
          "a8406fb2edb362dbf4827e6c3be8d62740aa467d1320979ac742e637fc60dd6d",
          "cd84a8bdf4509e33d4dc25736143ce48af3bfd3cfaa5ed6b099f1b99b3408ec1",
          "e3fa6a824e4e844c0eb04f6234317d14bfdd04223c2d17501375056b9b2fd01f",
          "28e927b155630da9e59f2c0c7292e5b7416936c3664238642b6cda989d236e59",
          "27f7d82d819592ba7bec9b6f396c9a63dfbbf08cb759a88c730a75ce6fe83451",
          "6f9fcaacc09bdf412c2027910b691a5f389e37467860a8f3db24480494c37fd1",
          "69026552e2f16f1ef10f815fb1194ac361498a0f2f874553dcffa1cdbf7beac1",
          "eb2c6fa2d2ea7035d1e0c1a2cf95d6ad51ceb5e43f5038d4143c69f1c8a11819",
          "d8ee78e92a6b7e66c0f7e894654f6aada29be7d49be02b52b06a0d7519820d4a",
          "90a2859083fdada01e2b5b79f81c52e399bb4e923759947840d9c7f4877f9dbd",
          "6fd41434d2b8126e314dbdf91ed94215d86f6c84256c931c303bcff5dce5689b",
          "448d1f6bbb69d4ea86f6da79c8d1ce6bfd3cc36feb0da561f4424f71bd4472dd",
          "a6a98b91c5bf9e5ff261e19e6782f2659f0e8f8db8f882ee8ccfd7a8f64b420d",
          "9a8f20af843078309ab7b4b1a19031a5daaf8074175d4fc1af4a9c56474ec843",
          "5aa7a501385bb5067884ca96c7702ad91cbf5286c350f2b8cec779138b748efc",
          "39501a3e030726de25089e21b13d7486fdba7c1c640e56dc66687f0e2997b3d6",
          "fcc5804ba796df16549b6fc62021c0a6a0c55894617e8e97949e8bd5eb3e6188",
          "768c5c8c4de09c7dcb6bb8337889670ebc39aede4209c8fdbc7d63555cd5f2a3",
          "29ccc9d56f13d19ad60a326d81e300042dd13fc9e217ed202efd2ec9e4f76b7a",
          "0e1ca21ca1c8ecbb63d5c67bd5ba6dd51cdcc945cc3398086bb6a9c9ac225fc7",
          "139effcb0b4a9e0c7e3b14aec57a6ccd9113539d42400253e150f74b5a12f3af",
          "aa454b66bb1c5e21fc36080ac556272d29480b95fcff5e8af88a4bc5e47ee154",
          "c23051f99b50d1858f80575893d51a50b07ea35d1ec058910b3af03c7256cf01",
          "bbcb99f1da760d7fdde607625010a4ba8870fac6e2583814f5cc39e4ab0ca4a0",
          "5a2a6966b66afe452348c4a860c7c34c63c21bc48bf3a58747c609c17c2acd95",
          "d21055824f3ee1d99d1b4c8a60669ac388b67a27b9d4c2ec28cfef0369297db8",
          "9189e7284452023f82c4cb418b4868ee01fb2b9bf10918d2941ef4e20c62958d",
          "c675a18ef418c3c74996ca01ee03a3abbb3fd9c0ed8aff0c3e5c98c0b863d731",
          "38e93a3621d4bbc42b1d8a3d58c9b22ab42cc0a9210717247e9b9a6d72ad36e2",
          "4d2947c93ea786c0d1823025cbf7b70a46fafcb45dbce72af56e93e90c12b0e2",
          "3c8b36ec5298e5da6a1ed17af219397dfbc598e04753041c48272a52f61822f9",
          "a79d5e45468adb72f4054afe6aaca47c9c1de2e42bbb44875cf34b0323e39da3",
          "dc07facfba65fa2118d2250463c87cf65f80ee62c1353e4b2a82ec614d9cdc3d",
          "2cb0f28a03add56d9e82d2198f53d77ea1e740f4d8b1438759c7ba21882b0fc8",
          "3e0f1ef04e7e59b0a2ebeb1dc9c99630822dc7ba3eabc7168d66b9952f5ff0bf",
          "76bb127ce23b45461d37985774b62d5b3b01ec27b65c57df720218536b0d4a17",
          "32ca3038305903531b0fb64c6b3b7f9d6f826f2f5c72377e84e764cc598130e9",
          "47db2b72f3f62f940c21184557831812ebc2b64f6dca2e17b6a837dd66fa5147",
          "ea910bcef03c6fecd809a14cea67ba3c715310c0dedc0304abb40a7ee13bccc8",
          "c287ac62f7e5826e6827b42e5ee28891069529b945293164ee0c8c40eca03047",
          "0a9219fdf82989afe97235e5d0c4e35b29e45dadd424e2beb725344dc6b8e612",
          "47492aaf572b8d9acc20515d8da3d10377ffca854a7e121704a0f388250ae65a",
          "d3cdec34a5c22c1ace868cafd5242b251acfc679c3eea3988ec80baa1dec40a3",
          "8a86875ae72762e0acbe1fa79c999a7befd924ce4082b718844598a204eae914",
          "4fdd1c64bae5c356b4f5a36d06b682ad80131f5a9483c46e919547b9fc18454e",
          "7f9ee24ae1eeffa8bd2582c40e97ad7d182812f9405aa76914fb32c3b35dd813",
          "e8958ab08075f2e9ab3de90e6c08f3b4e5ece28b340839b969a22d80bf446b9c",
          "8301042782e8ae10771ebf6f8060fce6a2dc7defa73e5999ba23079ba4b0328d",
          "c4487f5760b30a408ee40a866e60556918c4655e80737369ce7dc74dda280bf3",
          "e3de8024d9643c5782019030ffec42a6ed784cc1765c29468d4309671381e3f3",
          "828e8c67070a74238092ac0b6121016c352976623eba63a8bdd5b56b79d7de6e",
          "70f97df3ea9374df5b2ed634d599e47c0ab435dd3f411fa98dda21ff7035de46",
          "5b5d8598a0e13186201d4993edf59a2d6eb0bfab5c4157b45b3ac28b3c783120",
          "bbd0f1d733b05cd2bf96ff63ec99df1c66ec4ba434b26ce29c8aac2776c0a693",
          "8a55f3d9b95b274e2d79ca84dd195be1b2d58c5c44e134e30b7c1fd52cf993ac",
          "2fe57387291d18336771a06307a391b2264d6a8b8e2286f8df34ef0e84f3d8b1",
          "83146989e34829592d1b7922d111f60d7975c30360ca3039390e9c6deb3b61ad",
          "1864ed884e2651938d29da90c5a5cf2b27a57eb2a625954c148ea4b97aa7e72e",
          "2fe7e7e669c8e9bac9aae348f4ef1b423b5fa0f5b95d4d6895fd3b0074d74784",
          "630e378fd64a03e474c2fbb9d34acd8591c79a73b87f449eb23f517b324a85f4",
          "3ab8fdc5301230abef536d4ea72c08c9cc62fe1409134c9209ef2d07f918c4b1",
          "37941831fc9d3a31172b595387b3ef4196ba9c935ad4dda59f0481269ccfe7d0",
          "8659feb9014f77579ea2d39f372f7a53decbeeb7aa248a3b8b2d1db371cd5007",
          "04648378acade57e480b75034de6e2f0c8612e8424881381a162f479eecbd173",
          "64e3463324f6f9eacc2229925486379bf25212cf72c2f9648aadc1698da3d616",
          "6e42d6291c9f843fbedddfe98ae832630525b65ab49229c60d2f0fbdc456838d",
          "a144b585c2130a856a8859045e11363902a77f425378eec00df05a8ee93077ce",
          "514422e728eb9a62528a3ff8dd0c0abb37a85258c936fdf518b60f3e58b032dd",
          "ab9d6742b35bb8dbb26d33d78b3e4ea83873884dbdb9795ca60eaa3755ec7b59",
          "9d8bc29218c3217fca03c86d783930f2f8df227d98d7360bf3c314a0fcc4383f",
          "8a17ce23ad644a8b0f5878d44cc22302f20e0db4f2956342bc8393a064ff37f3",
          "0b69607361e056f512975ce293fe9837596099da530894a74618de04d89fc1b0",
          "cbe63a88c84d8e52d5587347a2c9ce2609f861f65bce327709e4171b6882ad9d",
          "48cfcb3021259ae7fe8fec3c9455bd45209c5d0557ab7b4a3285f5041347ce0a",
          "d7bda0cf4b50cd31fcbaa717e5862b8dc6305a8285867f741c13125a95b4070c",
          "bba31ff64ca7aaa0763ba0602d6f6e39f057f36e005532269fc4f362b7cd35ac",
          "aab7b7d3fedd00bd94c75ba21eb98b3e531643531a497f45cff8c67fd8cef5ce",
          "4deea7cfc0cc4b3763e2679155a7afad367208673ed96d44735d80d12f997ff9",
          "0a66cab78393834102f6268bf882519f7a330f5ff0998e017cacc600cd76f13d",
          "15772648aa900b1c85d3c7ab3d599be5e1f00aa7b1c6d6c1044a47dc1168ba00",
          "b4f3a85d20e8df0c8fc313c62cf45cccfb2b97c3cbd65157a40fd7d66fc6e381",
          "7670ff54250e13c46f1098628e8ad3d7182bc8c6a1c2d49f6fc5d738d9684951",
          "d45a8124f44b0d4eebd2fe0d68aa77740d644f4f154296023aec55105f93db9a",
          "81be898dda8023b917967fec0be712eaea0256cc90bfdb65379dea1fb16ccc8f",
          "e9bb52ef2660829f46e5d5fc1e8efc36dd43c210696147c5a8e4ebdf33f28f28",
          "9290172543a8e70c925722110c2bcdb8a0614d367dbdea6906b3b6208914ab5c",
          "9438d84ba1ab759123621bc16dcd803226ab8aa8258615f816b32f82d89587ef",
          "8fd79d78a701d28039e661150e21db4b153d7f75b4ec6f2911ee81ca7592fe06",
          "5ed4216afb68a5fb6b0a4b2053df0aafbc21898778548dc60e5c817283630104",
          "b63dbef4fbdc31b96d81e47d2c22471298d25bf201f6d748201a9a7b0a01815e",
          "cc7a5f8f56ed878d20cb5b24f76dc4c8dad0e97702d337354e14bcd1d6d2b258",
          "06319d554200c32538b633a3258d8c7e08bea73ea39e3861700cb275ef1e0144",
          "78f9df3450b7b85d51d6b9fcb9ace7288ce711fd82cbaca72017ee26f2535546",
          "bf5c475df82b22906fb5f7f6714fe8c4213cd93c222eb7398c7ba40587a0d615",
          "7b362538696d2878cb3e2d1804c32cd63f273ccb0a6838b9591d7724f7c60244",
          "0297b1801bfbf8626db60ba03e75fbd803691889fe5a2a84bc457052a7a5fbeb",
          "b49c4c45527e6258e7061b580e0977408586e400bcda41f7c6c163d0f9dd28d9",
          "67e72bdae128228cf03500492a7dcdd3391fec967e1dc4e80fb889c47b035efe",
          "c9cc264c19da0ce3066a6abc1e4d2968b63530ef8f6eeae699ade9f3ef0eaa1c",
          "35e439304b80bde7bfd1aab4873bc3b517853d91386c72f3195500dfafcaf1d0",
          "ddf21da17fdc77bf0ffa9ff8a862b1b80b32f1875d60acbe3fcf0fd0ee259aff",
          "b5b29d5423e8b7bd06061f5aecd715a677879a3bd0978d5f46964b5e94d2b009",
          "ef442df9eea26bb70c0ac6d9dd8d73e7d5fbf8deab4f1d8347b4b5ebad708423",
          "1a563f157762dba3e4e6199085eb3d80f6509d6b318e2b16b6a78e64a8b71e8c",
          "b3097bc5d854fd4a85595dcaa17feda62284d207b4a3e458a352a30ae234ff3e",
          "209119130f4b4f1ac8a153968623f45b555fc3b67861f2513e4b72b3cb6e33a4",
          "286175188ba194785382c56c619e5a08bf5493c53aaeb65c16b2384cfb3fa618",
          "352d7c1a29116330e3760afb0cb1f65dc825ae103e43c4fdfee0d4b027e30a42",
          "9be1842b2742073af3c2a423af74b1aed33d57064eecc972816cbe8f67e4adbb",
          "baa456a5044a476a880d29d8391218b315bbe18907b8af6b2ff8f8a871d6696a",
          "83f4b58eb8042a3d8330439e25a061c2020778c788fed3f4250eec78664db49f",
          "a933cee1ccd9001ccc992462b562c59672b539c3c19a4224eb0e629409c6f7f4",
          "e5c6f0e57c0da758e43db10777fb27719a703a939e885152c84e13611e05edd4",
          "88d25070bad09ed261abeb9659cfb9c5ff52f320ff2ceef6ef7dfde3bec4595d",
          "44c232a8e5bb11f369778c7a65540bdd59ef34c8726bae8ce747c8d451825a37",
          "c1e7bb9c8fe5ec486d44aaf397ccf7065c59133623797f0255c93011295a4ef9",
          "bfb58fdec16c393fd17c71e443d682449a0646939839d8a8d91b0f1d7ae8effa",
          "c4b33beb989ff4b63ecc24cf05c2849a18da24c1930a0c9d257850f856d00378",
          "d5a0d0508c00b6d4e13750df0817e773114a76915f9540cdd6039d7a243adc87",
          "7fbd15265a1fadf2840d03bc6ce2313442af5036bba5b0ba4cbebadfa315b618",
          "5a99528e63b20357c1439f65e91de3cec1a474b0d91e3171ce3c4d9f42808ac8",
          "5414e519322073cb36c49baf72f3e9988e457a67b7e7c68c76766ef573715839",
          "c524c7c963b20a2d373bdaaaf0c88fbbfd261f6d4df66069e454b2271a8bb298",
          "5aff717c76179542a7880a986317b7e7c613d30c17c626ba2f4c4eed843db354",
          "f9e27f728ac6b2dd65b91ceffda45bd9ea0508b2e20e63ce31b4505a61719960",
          "5a06efa5483015a2e068af710d83aa24b30be323d7932200e97891e7fe39c224",
          "3574f55347e987f83e72383a2cce75eeefb3d7b31e78caba948c18af20672de7",
          "1d0b562c5c60cb01f47ead93abad005e3e587ffae1e5225a44ee0cf7a4eba0cb",
          "4d880da622bdcf6b73eb4bde00bf58780c984716adda7ea376fdd5bc6da2903d",
          "f908fc227dfdc3d493ed54dde59e24e21fa11d429e92c8a2450e6cf38d983f12",
          "a0cf6f207c03ee8679b7233efeee993d05a10f684110e2a0af7cbf116e757956",
          "4733b634c0aca5fb23dbbc36b26859d4ce435767ee2ca0e99dc8efa57c8920fa",
          "09d57fd9dda39673ed8502035e4d4b4f4d74c9448991368d31c1c15e15607f6e",
          "60103bb4f53624a280637388c7b6a5649f028a19504727e9290a1d5772ee2c5d",
          "28f556d84b7b027579eb804ffeb0befa14549b1d6cd9b2aae06ba38809f0db24",
          "014c1120c266d7ce9a5a263ac88d8ebaed8c90a62d02a062330173b1b2210dbc",
          "2b2a3e7ded2bac66fab27617c2abfdc49e3b9f2a37086395c46516826bb80a62",
          "c9d3dc04f9880a8ec77f0197039efcc0e902479d327f44a8481e4660bfc5d9cd",
          "efe947680dcd7e51286effa1c0cb9c484b6b73c11c00bfcec5ec51caf939dcfd",
          "28af2f9aa6c829222e84692638b8b1b59291ac8b15a526b59c969ea5161dda4c",
          "475679b109b5a303709d7baf6cbe7726740c4c0c33213bd838827eb9574b3c66",
          "2ac615405e2e47ab62d0593a2ab942c4a33dde7a6d0d9dcd318e42c39c33c261",
          "360ebba14039419aeb67753a867109a81d1c32cdb6f9f349daccc9c4615db08f",
          "aee24ac72a6c8f0aae8bc6cd187bc7bd4b61d69cd043259ab29060cfc5772899",
          "6d4e08afda2c50f2f7a2daa75ca32f6450f9a7831f65a5b36fcf325a12116159",
          "22f8091e90ce911c7ecde274534ff33d9eeb1f424ac458fecd4a719226f7a7ec",
          "62d04052cf1b6ceeb216263874d5ef427ca34b4f64f40d2385d184df5c61655c",
          "e21dc4c3aed36ab53fb0071a8c33b306570fb24850cd9a6bc300f0bb45736749",
          "0d56231628630690de1e6a024579e1671a8c7727a3782854dcaf953af3b8e233",
          "77b9ff3c38a2549c7c60936c78a55aff9ede4d6069a811a626d29f5609677ec0",
          "d5af76706441202516afff6e8d5f1b99e62c2b911527fa5c318067f4ce5704db",
          "e0e38b7b9de70943e2c97fad12f5867cad7975b2d65f11f40c2cbe71e0ce8605",
          "31f68f27ed338738dee0b152fb27f1c9e3be5ce6dbd0b0f0ee15640774ab12c0",
          "0133a0de852afc2ffc648d534f3746d58327f4d367fdc5df178de16a97def7c8",
          "462777e9931b77a3c9e66b6f9c2d408e9f66783cbf9d9ccef2b67499d646423b",
          "de5381007f53825ecc19997087d79a9f7576ac17b1999f9109ab48fe03d1fc43",
          "b5b15defc6cd89d165902346979247a803178d0bc058f23f19e84b05e495caa0",
          "837fe0936b8c12168a6223431a5835a87c4d3ade96409ffbd48a5f3b5a421731",
          "a1b4cf2cdf646d4ae556204274f3df0456991f6252092854ce79bdfc5b271c66",
          "1beba761feca991c0774655635f8745cba63cd4ec4a32235670ad6fb93a7b448",
          "d2fbfd23d1814b882edc708ecc815ed2e8e443f6ebf6fb98857915f7cef30e99",
          "e3dd0e4778ef0a4807937d9611435f7973ae8fae9be27181dfe9f3eea402f4fa",
          "b541a4ff810dd640945a14484b051206969eb875771fa1bc52ba8e3d8a391993",
          "44effdf17acb6776725e496d1c0694b6d3f00c68c152290702701688a753ac65",
          "bdebb2d3b05d87987b451c7e2f51aee1832dbbec058709c16c5581b3cfe533dd",
          "95cb98c2d9322b435a94aa8fde91d589f175a9b5346b3a79eb4602327ef77d13",
          "87e92dacb1faa33b286bc578b8d5be4ed06aa9dfe2390f8ecfdd1c9e4b71f6ca",
          "9d403090d8832eb608940d22c60439c21a5f6a97e73bccf736cf25211cd1829e",
          "24e25cb574a399a94596c29fa3c19e5e12f0b8b46cfd17e1c5575275a13183c3",
          "78f4d101bb73f5e33645c13608856711d2e58924ca2b1d95debafb141307ffee",
          "1ba6143cc91d3ec4a5bf657f6128231bf82ec875f5824eda4faac06bd8075862",
          "d07cec3fca3a6b5df62113acc0c1db90a2494f38bf9aa163d6ea61df647d304a",
          "73ef3775695ccf1632460d20391145bcd1a071d596fb6808b2ed75272dff55db",
          "402fd3f241222fa76bd8eefe0c6814c4e8918a494e03cacac280401df70cef89",
          "55732baa82d4e7c91599ec0bcc3fc30c267aafed7be675164c53fe6cba2ba75b",
          "2d14d165bd09d4914fd4ebd316c4e08d51c6fd236f78ea2a78579dd0b8daffb9",
          "ad0a3c9fdf29a74f427f8c8448ae7fe82ce2a295bf6cb68d1066a9a8608abebe",
          "dacb78bf8047230812cd11ec9c2a20f98fe1e3f34869e4b2356c321d07fe7f0d",
          "796abbd3b70f308d374661b8dbfa6bd98888840849d06bf011c57e3e1e723667",
          "d6029159e4e2d97ef12463f85293b4574ddecaa7fa1e170021ed103eb75c8cb5",
          "0aedb14f9d792a369af371bf7abd974e5262837b3ce5afab1a8d2fd52a9ab024",
          "d9e71dd49ff223064344421c5e862da47f99f8555001c0a702183301fe19ba9b",
          "62501408d57e96e72c756107112bd953fbf0c6e51c57d76174b18a6ef08bbc75",
          "51fa5788e12781676fb6ba4cc2e5d5b19328f74d5c5a7445be8593cf9a991154",
          "244ce896914595651ae2b6bd8ade3d148456fdb760cec10cdcf493519c879025",
          "4624b8c5cc3962e78bbcf8ceb389c1f480cee1b0870f0359989083d38884f795",
          "a25f52ad4b77cc8255afb047d825efd8be3fb8b3a6d7de13d0774d874424c822",
          "c588668f9ead5aa1be74b1b08e37ed834e5e02c746361cc80ae1dcfe47db45ac",
          "bbbf6b29b248d7af75bdd7acae6afb84dd75a07ad38de7d5c4eac2da79073378",
          "3e5f3031a472105ed1ec358d6ff26b445fbe497a4c94ba92545c6ce334766457",
          "691c7064c62acc8fcb767d92dae0e9050ee087a3eaabb0c3d01c67c8504c06f0",
          "6f394c264dfc7d2994accb5926dd97494fadb1a0a9c39f67e11d16efd0d987a5",
          "bea5ca2853088995d0f5c618abb86235d1cae6042431d6a528c0509bf2d9086d",
          "c57aa02edfe5c215eb571a704b35a6b6cfe13af7768440f64ef62b6c3868240b",
          "5128814b3b829184e54ef88c7a4887673fb398fab57ff35fae9814a915a1ce05",
          "ca02f08e0c89b7ce58a473b96aef5ca59e3898feb166600d8082bbea67f30001",
          "9219a3fdd5ffb0bce28d0653b66a68c7c6399b65961bb63a433ae7d8d7015a4e",
          "fc65a5ac96918473d57c340c3f50191e51afaeead3442383a7fbf51122858af2",
          "80e8ecad032fdb6a8ce452e865a1436fbcb9cb6cdaeaf1496df37751aa53197e",
          "845ca92449f841ca3878664188faaf7ace3adaed1faeb2437f16537115d47673",
          "7e37cf0e2a99ef60c4ce8846c79de7c80542a5389a1e15d30a1f96a4c384d7cf",
          "475980d65d607a559bda9c8775bdf1c876f20469ae8b9a9d2166eba04273d560",
          "96c95317a888b7b1e507af0f6d9e7fad34f8602f0a2ca53dc93cd606e7799556",
          "6d348ef1fefadb12ea391a5b0ab557115dc9cbe46fb3a55b2676c814eda26a8f",
          "82c776ec357d00fba3c83937c1464bb65a32a568927b57c41cb423f66931fa2b",
          "c813bb70caad4479e1b5a23e19bbcc5a9149b1c876767be37894af13e53b4960",
          "8556ed74028c76d0c91d68fe6411ce319c093488cb33319d5a8221e3c5b065f6",
          "f4b68fd44d636f17f8a6f93bc965b7cde0db583c225fbf17c99c2dd2a0571110",
          "d086df409ae474a031d9740ebc20fd0f5e64dd3e1ae3d65516a05a07503bf7aa",
          "4996add83a7755d7775405dcf2ce2b43e97984a9877a0ed76d9e080dcd5bc2be",
          "01108fb5be06d54b38c9b7cf7e402f9971eff5bc456778a8403fb3be47f442fb",
          "763c2bc0e1156212f817e30fa577b2dab449e78f0bee2b23864644bd8497e381",
          "3823dc74f06e1d3272027cfcfa9ad291a71ebb7b484b9d396875c43484f1ead2",
          "5aeeda0e25889ac5d532861bfeef903c6d58d8f7af1722f10fc810ad31a07fb8",
          "50565c201bf6f36264b8f1705fa4c544c43ac59ccb227a9271417599e26c7fd2",
          "cefe7573b3a88f48f117d1fd0bdba6f15c02042923510ff5dc0cc426c5fb46c3",
          "1284edf6d2368b4f716add2d677e9d852c2bf6d4dea934c0cd6b8be407240e82",
          "616e07b2d23f5f3eb02bf30afaf55b3034a0f1d237a91a7cb736a2313b78b38f",
          "ded770560ab57de8d850e400908795f7f9fa86bab18c3898bd7c5ae101ebef79",
          "da9b695d72096be62455f0a8ec204209c1b50095dac3d54a44fc74d17d8c668c",
          "d1859164250f0491be732df996ee925acbf1e07c2cf3e04ba84dc4a7ba49bdc2",
          "f8b81ab8069e1cb64d601c699eaad954c81db2b654bf719c0a6d09b9625d37f2",
          "3a2fb723d82edacc7d8539a93b57aec51618fcffb96bd5f1845fc69817676681",
          "440e0ebb094dcd98363855550561e6c8e002d381cf53328a2900a892ff37ef16",
          "63c0d2cc8a46d14f8db55e77bcb343ff25ce17aff6d576acdf2437427a13dd7b",
          "a1d9a2d6598471f143af18eb2ff8f728d0551e6bc98ef047b842ffedeba49760",
          "53dc8c88485ce96587b6580e6239d4bccb0bf91b0ef948e75ed97ff9a1ad7571",
          "c26ac4a257bf826617108dd3fc56a7c91f0679f371a7180aba3b66f45fa0d4d8",
          "d6187fb33333f721596f932a3eb7387d95c4fa3f075f6860b2c2f308d3f0b580",
          "f01307f35567e69e87e36a68befa8d5931ea9eeb86b8080bfe3e90b5e8c8075f",
          "8396d5c0245183f3972ffbffc15630416cff9bdec4e8a32482d58ce2a1109c4b",
          "03c4f70e27dc056c3f409a5620f35708282ce30b31200416919bddc0e7f15c51",
          "fa2a02359766c23082cc7dd6a2f3ea55ece08f1e72c313d6eb8829ff57bdd816",
          "db3f0029d3b0fe57d7b3c095130a1461618ffe82b3cb82df5f1ff6ec6dfec08d",
          "ad02c4873c419d240012ee2e4a089f2f6297eac633b176fda28a59a9a38b5db1",
          "d179bd009a96d6abbf417fc5f544f6cee7bbf59fca6fd79681570ddbd7eea728",
          "4e7a8ba23d4a7e015acb05d34a444785577da5434de79dfbf57b91c04bd32127",
          "416604b0d8abe8a2686e094f661b3c45640942fca4a262bde309e0bf0011bfcc",
          "b9237a77070b85267d8a03e6299d52530f2a227d49a3ece9d53be240a53dbf5b",
          "b2fc9b467a472d0b31b486554b3a53a479b5733f4a96d315673768b66139066a",
          "baaf150a1b4ca9f6aeb577691a5e4f798648c60ffa268e520c7af21c2d18bcf4",
          "12240503fc12d11fe3684718e690f38e921ffeb172dd3148a8a383f9b0eb7eaf",
          "7e58bd70fbc04b5a6a4c447403de860eda12bbc41b1b831675c0948ef5f2bc8c",
          "3bde4414473fe1980a48192cb22dde3ead7a3724cfb94f2762ec03a615e139cd",
          "900c4575517a53def52f353864c4aa631c16ebd1c3c5dde4e3d88910965a6c74",
          "8a2eb2abf6a05b60377afb931dcc4a2860276f84435a38ca7cbc109a155abad0",
          "fa59953ce2ced7fedf00d63c29fbc680d21188e782932d494d54872f4bc6967f",
          "07e5a3e2325c2527eb9dadd551f561dcf9344c571321355620c527659ff77376",
          "1c83d1a4b73cfa2b6e3c6b0a1225666a159fd3b87342d30f96aa7a1871f432c7",
          "241e664f4fdac7d5b41a2577e28d2b63dc057496684c6ca4834b52996076109a",
          "8e0ad11be81f3d9c00075d508c016de766943da20595a7f0285f982ac1a3f1ef",
          "ae80f74bedcfc81e8439b80393ba9870c2c412fe0b2083ec8e651f07a87db959",
          "43223eafa30a45409b208db8a98fc420097a5190a1456688c7838a763e1e5dc0",
          "c528be5638bd67351fa251a7dfe804c25de9d45861666d03d4ac76085a2cfa3c",
          "e3b4e34eeea2ed5aaff2ae1c59f3ce80dca1e3e1b9965230df6ad097e0c9f4ea",
          "9ae44d3567a68c4643b0accfb6423abd72792a1448315a13c4d8ba3feab044f1",
          "c05f403d88c4c712690015f7e31a1508e3f4a5c1c3bf181b6fcd05345d514297",
          "ceb5695abed104bc873080effd2efa85377e16f57d91e1b553280fe958b9a912",
          "6d78ffbf81b53d64254fc7fbad0de73d8e5b3cc14170b5fc4dad83ca55adea84",
          "55bc9d111089ef48e00e6beabf0d93d7d31dfe61e601f8588aa8f97136c4532c",
          "de381bf22914942e6caeee523ea4e660c3415f55703c22e5b7de457a828cfa00",
          "a75ab5b48128ed0892d5ca8398b3d4f00d0cefe0fa7d475d4097b89473ab4f2b",
          "9ca1f046664b5cf6eadeb9c15cc2defb02ceffb6b2319a2811a24b575ff2af25",
          "7111cd58566ec14a0c55b51394c2668934c0a8592171d1095261c1010fa0575c",
          "0f2c0f32c34c55f2d0df95243241507d4ad97914557490f66310a4fb557e0152",
          "8dfee54d418631726997e0d049f3f7af4f360d8cfbf80f0796d1d55afe4910c2",
          "ac39ea3ddf859d2033ca53ed73b118e8f4305704f9451febb3555a095e147859",
          "2c4de4067951da84e9a95b765c06399353d3fd37a96d2416f7fd89ba1bfe3db8",
          "4671556352c87524485117b8a5772dfa3d08c6a80d533bd3d5ad4bd02ab97677",
          "2bb53751b552c1a6af97b5caccfe95ef2f33e2b198f7946357d40a84e695baae",
          "f7c8fbb83c917fccd553c417a03fed4b4ea46c75a047bf649898abc9535268a2",
          "5f9eb024c9848e381cf69ef0bb0b16f16237b4c2e7f20a9a2576fbb03fd9568a",
          "00c98aa13f067ded73d3b99ed7910c138ea1378732081961aa89fd32995af5b4"
       >>,
       "301516492800{\"amount\":null}",
       1,
       <<
          "262df063f0fa90557b2ea9a843d871a7c28ca2d0727d3249db487e38b3e0c9c6",
          "2ca1cb8d72083ed78c04c7c06723772027206cad5a85c13c4acc3f89f823f917",
          "9d19f0fe755f3717c056dfe243aefa232c3818105160d0434f831261acaba95f",
          "b315a0f068e5cf07beaa6eae11fe369c784ab6bfa6046e0ef86b5119851d9205",
          "54af76f19655fc7a890cd57164ba81fd422279ff6804afb89b706e6403f60f59",
          "2dc99af6f0bb3e591cdb0014c51cd7bc4a9b68bd0a65debf6547613d86d51893",
          "c0fef12efe708e5e10c15194d100b5f52910a99748d0e010d47a8c687716a46a",
          "b7367c5b028ba01d210d0720d768e021ef43def86ef6b3cf75c7b6c1ecfb855f",
          "49ebaeba917d8fdeea149d800e636b332d7d490068925525a71414f44b5b4d90",
          "eb1f302d524f6283a7b01884e6937d79eeb35a02566a2e652afd18cbf1601d6f",
          "b37645475ecfe47f10c0c7a6f65838c750afb7e397afc4da07f567b286c6103e",
          "c0a426e4e4b3612c205c6cd9c41bf00792a2f3900586b122ef71cb1354d20646",
          "157ceaf82f4c67124b3b2b5f757f626d67cf0d713423d9401359d699d3fc51d8",
          "54c040744985ae0b023500637290d55dd22593043958e55002f336dfeb8873bc",
          "9281939f4c8ace01ea3af1ea136da07cff87d910957587a23e002486a892455e",
          "0bf5a91e4971c5a33a08c7d51c1d558b10c8079e148ab54ea22e1928b86170b2",
          "466eb88b21627f197aeb4df08269aca54e58fd2792f8b457421a272e89b75509",
          "d69b87ed0b7039adfab7eeb98b919c66bce9c0b217aa9e86c6656264529af4b1",
          "fd2b71cb9568a1408472c54c74c55dedbb9a49b3f213ab1232a362dfbf972204",
          "c29cbca0cc1126a6e3a0b0aa8c2c37541846186de4131e950e673e5a47f71c70",
          "44352b7b38e3c7d8a22fffb8273a89986e9eaf9339b96e70d4fd719d94843722",
          "a545b4e719b579eb44f20ace38973bc424a197714217328ff2a1445abaef9a7b",
          "599454eb58e32a98f53580a5bd0fd630de4e6f040fa36149c05b00f2e28c837c",
          "4ed0cc5686eadcab71331b9f69dc99d120caef2f4ce6eb2b75b57d9f6c4ffa9b",
          "ff7337357ceabfc2c2697e5997eef007f6c96fd281b8c5ed6ea08544ff76a0cf",
          "a625ad9549242b32290781a6d9f488404d70d0fed52be27492c0331d3398c6a5",
          "bb6c893d89c66863c64f6f08df0e1f8818eeb27bc6a02ab49458be828e5409ce",
          "9c5b388ad9685c8fc13006721c1cb69bbe4d8d3f62588b6383e653be3c640ae5",
          "3972a3a1c772edc384e0e51d4726a497ad484b5bf1c7ffd8bc4def1036967c57",
          "2c8eb2a625fa590e1406e7b5e0b16296540fe883843eae3b24c21510a19a65a5",
          "0b754159846d039f5e93b2bea2d28572358494184e1209ab8dd04a0a6b537058",
          "d74699ed176732d592de24c95080564b1acc12bb967e1200e821ded48e7673b7",
          "d8300c51adc508a194e3043feb623ced8ffb4a26d005664591006444ec1dbf32",
          "c5a6ab054fc0a4bbc8b5ee38eb4a8bc2f1bac2d0de3fd91f890d2b13c3b7b4e0",
          "14844e9acb4f0bbfdb1bd0de453df31c67b48a5f7bb996208f677cd4f1ed9688",
          "9816450d170de9db34edbebaaef1950cc8037310fe6cd9f6427371652a28a4a3",
          "3af514b8271a3dce83e81c4e9c9914267f900823e2136ae61e418ba0636b94ae",
          "5a2449c7fd25330dddfa25a4eb010c473435f985d25b843dcbf3bf301db98c3c",
          "3295b23e3470d0d06edbd51ab5f735ad53bcb94b4dc12fb321fd1fe4cbf696d0",
          "206da9e62eafdded6bef6797ca7e0c8d1af0f0b5cb2ebeee321248016d3a9a48",
          "e4d4f6b487876533b4343f0a8520664f81cda3e31157e0febb9ada5e094bb47a",
          "3ab5c0139c7958f5b435409a37c47d6e52153507bf1b6fa9646afd5b5e4adeb5",
          "b2c0de5f9f6801a12f38dcf53a71a39b2e9f34e324b16da6ffab0f6c4e1b027d",
          "eecf93e1ffcfe13a136472cb8e7b1b3a8c1b614fc8f849836813dd57af2f3a4d",
          "d7920c6bb5fbacbd93c1a9b6bbb17019b693fb35b1f324d36ae1cac5c2c5408f",
          "b5472a5850a8f49b359be83052e5c0eb16a0cdb51109c0d01e9b1cdfb698fb5c",
          "911f84ac210bcc20a558a666e961b20e57216c5cfc2221fb5092c54999d4682a",
          "ebb2276f7fd4c65ba781169e43a1a20d967bae0387b8905cc83cf6c646032b0f",
          "8e2ba70092f042bbf311283a1e85be439e56dc09744aae166abdb7e0155a5f7d",
          "488cbb60caa865d107fe49cca36ac6e6e8fd1e6f700e99c3103a28cd91a17bb2",
          "e25c51c22c22afddcf94fc025ec8b2c5e39907a9309421efd66b4d6ad4a0d841",
          "44726ab52761c20ba91f87a3c4485ceb886c99e5919363c14980790846026c84",
          "8b7a4b92f63efab445099d29841b834d7f5fc4ac48e38c2ec47e8a1d03f9a148",
          "af5bdd59ccc8e62761ac0e039bd46dded5198d6ae4e3144eca6e66650a9c5d89",
          "45934c72960ed13f441a250a80f9ea782d095a1c3ac3a85b9eaea6dba36d6648",
          "58e32f0f30ef91324a5b44c34c2d54fafc29c1f7c997981814b7e1c4efdab85f",
          "ee48c024432ceef08ae794470fa4cad60149140f888a1c065e6b8624e85b9883",
          "7aff80d7e563a713740c640620eccb7e08ae5b51478ac60f220fc50f4b283030",
          "f268144db840d3a734b30243288f50843127cea71b3f20042fe0f92182320669",
          "995507cff4fd899b6b755e95870ab1c1356eaaa4baed854bfb28ee5a34c3e334",
          "eea6e2a2c6461df597f7ceeaf9fd5bd043a8e92ccf52a292c40cfc4ceb63a997",
          "913438d8c3fd4a29e18a6036cedbc811d06395d22680790795c5ec7137b4887a",
          "31c2eb1d13888f6788ac46f1615d61903f93829660e8288aab904ebcc2d21d30",
          "080f97dcedb7387243890da96ada496812becee77c142c839165e9fd554e1f02",
          "e8be4c22aae6f0b9942b49c836fdff10211a3d08ff29cdab8f447927268b0b55",
          "f18a322b0d6959751c6058db3c3522891007e4b284aa0fbafffba205699329b4",
          "f8892fa750a0e4c1f8ab7a4a093fceb3028554efede9edb735e54dacbd73f699",
          "f3de9440c37a28478077eaa7228fa8a6142369b6a17a69489b891c44f908d7c4",
          "a45785f796c88e61d6429c7193e3affc21d83842ec2824e7c30206b5fc4e057d",
          "585687401c923cbab252a76ff7e4bfcef9eab57f64519fd431fd6f32407f0825",
          "62539aa4630847eec6503389813f28a71f982a4b83aa99970a16f8ae19e03f75",
          "e7479cea1258225ec5c6f23d2dd7860826962e104719661069f008887efc0f39",
          "bc6aef7fd641f34b36f6293332890cdc12b24703ddeefee6bd5f3b341d9f8aef",
          "da877a0d10a5690b09241a994d7176107e0b8268437a63b06d3ba953884580d5",
          "28f3c484095c7f9ce68283a71d48c6bedc91a70b86a1556ed5b4161b6d9e1732",
          "fda6de8a01753c4b59c99108daa550508ba8b2574184cb69a963fb7f8cc5d4bc",
          "9f988bc499129eabce5965cdff0d6fd22d019832c1db13ea86a736c8fd88bd51",
          "d374b58493a8275acb83c60fb0279ee0c081124da466a24ed15e6bd4974bb964",
          "9880d3f5673c02b807d1f28313e3755bb2196f6ea94c9aae7bab89a6421a43dc",
          "7c2324988b4936dd3b8f817db1aae4a7a3efea1e6a9cd2d8281c6fc44b0a7280",
          "9aa9f4e9ab1c6d4f8a11897264b23eb347e5fd373718477221694adadb8b20fa",
          "2a9506ebf4544f46ab9889a1ede7778bbf5161a6d5f391a5cad0fc0222eb7364",
          "775043eb5f05794e435a7dc0bb6835b390d71bed8e762aabfdc3fdaccb5607e0",
          "34bbf8ceefcddb5d32b159b88a33ef16cb73f2a197aad4c2b4d03429aa86af83",
          "0aacb6aa13554803937f76019c7545e13da56ab0f3ba2669db5a2865b18976bd",
          "d2f7878fede622bf374cb650c70cee276b8329c814d211d259e809245561d033",
          "f89c8d7c63301254ae5f26adaa7f8302e754cfb1f5c0af21c6a88d4882ba7856",
          "8039c6bcea93ed3769fbd11bdf7887351fc0ecf8cef360453a1cf9fc79504a96",
          "38f1f2ec3597c7e3d71d8765009c292424eaffc6449fa8de9dee642ee685177c",
          "239b9c142a4f014d23d2b90fdf29add87b84e8d8f41179c2a70b0f2f681121ba",
          "9a84b4b51b81b420fd0092f49648636c7ec2f96e197c13b8e2ca33c1e5711668",
          "08288b73bb8459b04d84c50c3397ebf683c54fda58febd311840d4c7cf8218df",
          "7af347e9005febe2c451595718ae5f23c99af125557dc6a25466f25e62cff625",
          "13bde1bec2dc358c7a643231743cf0b49647430d54915bb1cdc2b6983caff945",
          "794cb6e8466613b9235c4264d117eaf6ff3ba1f1addef9e17ef441f8a19708f6",
          "cd0c9d9338515e6b9f621fdbdf9eab34cd2280c6639c65f1d4690918af3e0fed",
          "503d8b4e937eae6c31a448a15ae26856fced6070df60e08741ec99331185c2a9",
          "1cd6d37ef0c5aa40073c89d3fec36303ebe3c073da261165d8aea6e1a2730c59",
          "0747e405313cae097916a910843b822a8e446e0c7fa5b1adeac7736193a13f6a",
          "115fdc8c4112963481264e8211cf7dcbee3f681d0e60890367c060d50ba9279e",
          "8194063bc015fa9e5ec46108974a10c62bfeca1dedc09b518c106d57ed23f862",
          "5bab18f37e5e70686abd6f23144377005e923c978c1cee84a43320c6febf3ab2",
          "1a1969ef7fe991af1e9cab820ad574ad74ac0700b32081f5937fd3180b8c5c09",
          "217e05ee36ae8330f08829ec01698148739dbfb9b3984e2427dc703abdc23c9a",
          "9302258d1680538ab05dbcaac700c3e8df9ed4593cbecbc9d90e8e74081b6db5",
          "46ebc705fe074d863ae41fd19109e273f002dadabed8f4424e5d4a596fd93bfd",
          "81a405e3555c7d4014c04b7450a5fbfd4f31592f0f738c712762e50278499430",
          "d6b10dbc7e6fc2386875e61d2b787651b52bc829fb9577d4067743b89810bfec",
          "5649a3fcdad7ff20c274223ec0313424d8fc98cd2746dfece2123c53ec3afe7e",
          "c1a508c9b1262cb916b048159e1b5e58c9453ff66387854bb672e4630dda4291",
          "0cb2e1750ce6890c2c4b55d6eca35f79e413579c8b729a34aeb91fb71740a2a4",
          "00efbadc7132bab2a659e6a33229327b986c0996dd16d29fddba7897e91505af"
       >>,
       "30cce1a82f0caffe9d9e59d6314697e92eb230fc93a850cfe657a89b9ad9bf87f1516492800{\"amount\":null}",
       1,
       <<
          "0c3184ee175784dd12ab4e1ff2be2859f19d7b1fc783d5c219f5d1a2ff07fe33"
       >>,
       "30f1eb45fa3ace15199cd79a0a14b10a227096af8828b756a868616c0f68c27c31516492800{\"amount\":null}",
       1,
       <<
          "30e2b349beb85ce9de11eea1a1545f88603c0e984be52597bb11d365b7df7aa1",
          "c57408072936870c82a70d712ebbe31b1f32c741c7c7e55c2ab24aa2eadfbc31",
          "556ba96a650330984adf63b2bf14a4d035d4e8da26ef8719b4ab310b997b3d8c",
          "611539f77076914905dc5152baf03a2b4242efdbfbaccdeef37fca8b03001b20",
          "8173ce3c9c850ba141d3eddf1c979b994f1eed12c29982eba8623a8a2a758fc9",
          "c820ad1596dbd046c459f757c4c48f538cb3a673aaec150558f4462c3bbd25fd",
          "d34088bf41509c06285232ec40698c8fc05f880f93bec8fad3b3c6927ade06a7",
          "6a3aab05d2504923f3bd69ca0b4be94767c66f0548259006ff16646604f5a3b6",
          "a2a49a2853ed5a9674f084962231f90bb1e26428ecdd7c7a4bf45e73e35fcebb",
          "906420fdd6ca6f414af1db9493393b123f3d1f329c1952983a55984d599e94b5",
          "0cdd9325862bfd6dbb86ed1fce6f13ffc1d9cd2050530d7f6bd13ddde844f110"
       >>,
       "30fb52fb1d73028bac4795eb63b8c9f29c6156fe6cdd89f15c228eacc2f0b6add1516492800{\"amount\":null}",
       1,
       <<
          "6908d9ee23cd1003c60f20441e96a03e640a08bb6a3f96768a8121f0cfc3c3e2",
          "f898ea65eb204d2751e68e04e8d398846c92fdd12afdcb8eba0deec70d14f273",
          "f617c54ca3d88bf85e627d5892f7c7aaedc6c5bf14295fe41b93e3a04c60813a",
          "b5f74addfdce652c0d18679382b6cc1ce8fcb7bb09cfdfe3abf0151557d8fd7f",
          "f6f31e365c0965724b01bbd50ca6adf6a06e7505642381866a82c065f46e85dd",
          "2b2c439585d37ec9e4abf2b9163b907b2b39e23dff7775718ed50eff2f445752",
          "577a19f2e628e8b00682b67766c9b57b72494e9f0d7509e4bc7d2f230f21cfe2",
          "ae589c0dfa2d919bc29e9821ce255cb434651b865c0ded89b8f2a8198bdd3611",
          "979b0441e13ba1fae867fb1eae5cc4b1ca3a3ae3042f9259f9b891889b4fbf0c",
          "deca05ff682501d13c359b03b3be418dbc8f4070815e398f0083c2bb32ce40fb",
          "1ebd507ed9a91bab8a9a78ff8860e45667ffc756d4b9925367d305ebfe9b8118",
          "7a45543b92e74c3c1ac4ff06d779a6e0b3ef3088f248bc6243e248a1d3fce243",
          "54ab862a50e8ee3262b6000018c288a9961f089fbdcc5cbe038b4ebea5492562",
          "0ccced8512d9301909ea5bff120bc3ec76c65855d42276ae7e11a35bc35e195a"
       >>,
       "3b584e4c01f1225d68276ff7ea0e2d07326b3a1bb4bc98426a77b3ea195896fc21516492800{\"amount\":null}",
       1,
       <<
          "a0445fa2cf5869d68e069b00229e1aba474e64fb58583265c8b9b57c41f6c300",
          "d5db37331d74c6ad8ae0c00f6dad50cf3d89182eef71cf54d91a71f322814fa4",
          "1b136980a821c867ab491aeb91e4ef3cd1606cef8486598a54e4ba5f4022757f",
          "23e9f4a798d67830190e1fdd6d4db2f8fb6776099e62f47047db554092833ca7",
          "2186d06f18deeeb65653c3ea412f13b2f66fe3ed3ef614950b36d74b15556e33",
          "dcb67e9a3dc926669426e2a92b813fbef86421ad6958fddd86f026755e911c50",
          "92955d9a8031060e51d44432ee04bd53dc601efd28e97dda8cd84c974ec0abbc",
          "0cce1a82f0caffe9d9e59d6314697e92eb230fc93a850cfe657a89b9ad9bf87f",
          "6cd6c0b0f548e8fbd5523afcf22c13b74cc3cbce4bb169ce2100e3ed0911fe4b",
          "4bb1a7e3f2a57b97c213b25ed1b6b85c3effe7a30f357f770935b31cd59a70ae",
          "f928b9ae39aff6710626e3be635a3d5e8f530a5390b56945e599dff0044c6930",
          "79fc287fbbf06e1925f8cb834b4ad9e5eeb85a0f87ff16ca298aedef5d13bed3",
          "a49b7be0054ba4a5ae5b9a66899807ca317fe77cd3708df088db0c4e5e0f4d35",
          "289c153b36bf321dede962b28914ee401735819ed08468379ad803762e4f1d75",
          "3ce499abc4d0d19c04336e7ea5de2ee76240b3feb48324b76df07456508c9160",
          "af80faa74f821329cc36187f57dcc3e95bcc8f2be34fe6e834c2f07405273e28",
          "581aa4c739d3fde19d48817361dda84a66b7946ffc5e74786823aacefb9c0f39",
          "f43f57760882fcd73639319f8b2bb2808f94ba38798612d3feb3f3a71a35bac5",
          "57b93471730b44940e68f859ba552449bc7974e07afcba8493b5e977463b5d98",
          "1785ad1ebcb618a131bd58d50852bcd0af785beeabefc390630a756fe696fb7c",
          "e76a9403101d408c0ded36b1c52d2870e864c4b5eac1992eee46a7acfbf616d1",
          "c1ce63b01199a8ed181a68ece9c7e12bd530c73a4939468e10cf26bee1cf834f",
          "6dc28beb09ff2cd461d9e14116643ab8dcbb4f27183529305f22d086308e76cf",
          "49257b4b4c68bb40df22a323c243e365823c034caabb74b38ef398f29b2ae9db",
          "5f35807c8ce03621e8e60c3ddfbccd3ab6200711da324d119eff4a2deed8a9f1",
          "b6108789308e34f85b291ce20cb83b4ddd8a53257c117982a70eed9491432a67",
          "75953881d8c9c4180f051f134dadb1f174fb73d5f92b49cbc96b30f4ea67deb9",
          "c8a3f46847dc7c70972ccd28ea1ec5be458ea7812faec721c9170f27ebbf5f95",
          "8f926c0af4a3fcba1a34841da60c8fa8ec54229af88f761ca7de48d1dbe03cc4",
          "9143fcd6558ea3cdb2680dc3d489466decf26c2efabaf3f6291f71d5f28e6635",
          "31e132b4d74fd1037cbfc4245ec7dbac43be2f6256d0a318aa5f3f1e7bd4a0a2",
          "e40c682034563c846a3424a218afbaaa321028ba2dc8beb4e3ac7890bb5238ff",
          "c16cc8814aaf4afbe66d13ed583a39af7d45d77a230475570e2c7df0c5bc3976",
          "44d01b53bcdbe481049d2448616646ce94798ad6002c18fcfc9f3d8661c15706",
          "2133205ed4a07e4373c37a2149ed14265c0d788700b87b0d6c71449f498b06c9",
          "a0654b64be4ec742ddbd69666b9193dac687c4a5ad1694b9462b04d7bea070c4",
          "11f29f08422c19f038e8df55d7cd5f785df5e96cf2da20ea986b752122192b32",
          "d67fa491f406227d0b72f9f394a2aee09d618ed3532eea1105f40dea1afaec9e",
          "93f0f29f8dce41a55c3fa23d3bcc15afc72cdaa8ca77b455d97ba57720352319",
          "0daaa1f86890f44fa8673efc6b58ae40479d4dce53f565c9ae7b4d4b9d42d533",
          "79e0d6ae9c7223607d5285beb02d8a9daf44b76a76f4691418991f1141024f5f",
          "e27ee01b01fa3914fd38dc2a5e579a0c6ac608bc4acfd7ded53403770a8bdf52",
          "bd4c5d8a7238564a2c56445a07143dc413fc943f11223bca5f7fc18e2fbd346d",
          "6591aa943329e5fc1e1c0c783d1919f594b8afd983ffc04f64be9c49aa2ae12a",
          "221074591c79f2b05e17a1db913b2d58236f688c6fe585ff4069e3dfcd49a77d",
          "eb57d4eddb8d102d824923ec3f39b16e8f0d0f621171e473c04df46e4a420b57",
          "fd53921f10749bd01f534c29f9b4db682a4db84f44608721724a7d1a00d0bf61",
          "faae22209e22fe10114b5743901027c6a54271fad4af2f6d7440f4d2fcbd6537",
          "165197988d9556fbebc0a2947a2e9117edd64e8a120bed39a8742ff3fd4df68e",
          "ecb622273d99a3e03012693b3f64b08457cbf920cbd294a3a725196e0629e500",
          "8d840ba6e6c30fd6532e5b546f3cddb32a87088d376afd9aab987962a05f5835",
          "a173b72a17e7a9fedc1785a775b6d5274ddcedd51aded1127d59593a8ade00ac",
          "3c0d069ae682aae70b74abe57567cb639a1d9b38296e9711e9a89d4c36f701f4",
          "3e42c28cd4625f07dbf0181d466f7f5433af7093f6c36e4b6a0204470abb6815",
          "bfcc73f2e5ec88afa1d43d14d01eb50102dc98c1f7f9589bf002ea04e3737429",
          "ff3eb2517ed19276c7d9336b4da27dd730a519be64fcd9f2ecb215cc15375ef1",
          "cdcf23f839247bf384d9e905d35054defcd6114a028d3eaac675cacdcc239fa4",
          "330c6de0862780facc651dca74bf1640ae17728aff3e006b48060b486bdb6bb0",
          "c492b2b755ae94375d960419c52fddbc74e5602f32debced473908069e6ae1a1",
          "a7c67375da2785f28f952711145e9e6d24d5f24aeec2244f618d28e085e57391",
          "85ca8577a5212c04279d02d77970e3793667cfae37c62aa523c0ca7125429585",
          "70f2088a5536937b55fc1642646c5cf1b98db3e5a1a5ace481e28ebab40a9944",
          "90e8e4da4cbc0fd3963002a07f3cb32d6f171827b7ae86fe875f8980c9904380",
          "9e9040ceb2126f8535f9febd62516bb247da77eda41720b8c6774c77868f0a0f",
          "0d097d3520b487312d653bd2ca57328912f24880c19a9e0c13779eb2f9306c0f",
          "edbcfedb8aa05fc53165e4480d3b97c606fbe20939633118d37dd58b2fd8cd95",
          "57f81c7653661f1ab54ebc81e5fd4f1b44b4a8879ec1e5df54c11861132cf6f1",
          "89b287ea281052875042079dfaf6e0e910fbb313d0412bb02c51c8c44bd537a1",
          "0c01cef159d96ce5d1c8504051eb365817e3744420db25cc3d0d294e8bf679d1",
          "aa250dfe792f75037adc0682ce5dd7079f4976ebfd04ced4e0ffeb2246d4ec23",
          "8a017e529bc0b8efff91d59124237b6242ab67fad7abab59ca01b94ad3957681",
          "2585c1734335acba6cc96172d2b0fc1e78f8b8644efd3c51c18662fb7226ea04",
          "4ca3b5765ba11cfd5fbce654f04b7fecbafddd836b8b8366e4e883c404a249e8",
          "e13b68d1db6a47016769343e8c9c30231dcf1503eee8d60b2c7b60ed4f36bb94",
          "20f225638428fa6311ce59e4567c5c144874d49f5b846e840938158de95b467b",
          "f0ebc0f98f0f9143232ec7bfcac2a0b2a3877b16cefa22e09d311fa015d927cf",
          "34966dadb94959f414feef97f1166f19bbb4ad02c87c7790e95559ee053289ca",
          "0779252ec007e7e73cfb8a6da2385153701c065def1893dc23dce9c2dc383610",
          "7257dc0ab39f72571d347ea1c023d52243a874ac569ec3ef1759996f8a608777",
          "445e6c11e65d7af8f442e07c94eaa49bce686071997c462801687c3a4a1ca271",
          "c5554864bf7f01028a9278842ac95a39dbd9f445dae6b936c743b08c8843538b",
          "6bc4aa8106a37b3cf527eea0569ba36cf2fafd0ecccd8d06582eafe995b29164",
          "67cf4be21262f12434090a9e0db542c5210ec924d63d444790f4e069f1610bf2",
          "63f4cafb1fd599e17d40ce9b7b6b6bf629a93ab4578f98106230c37301b5db0a",
          "e6611c5b814594ed163c55295f0e5bb5e8674628b5d39aa75db4b3f72deba380",
          "b2950cba279225d6c2cc8f07719a3cf97bd0b84fdf4ef4cf3b35acbb6e3f1726",
          "0b1f31cc1d22cd6a0e1449c12b10148183730508409a0ae1de736082b2f6cacc",
          "4068e1ddd8ad526e70f81eac190b16904f81670b1d5193184303a8fdd6c4cad7",
          "2f91367c32f5ac6ebb97a0eeb8e31a1c415f72f1a7827a0c39a3ebef71628357",
          "1006d2f26c2ca376195ad3a84590781c9e8277daa45a3cc8213e0fb4d1ffd974",
          "014a183dbe2960255b54a5569d7ecfc062a0d76a23ac4b394540d07f4121433e",
          "50d8d2d6b7c99933b0ac388c27ea452dfbd465d819cd7531af7fc16e975aabef",
          "5c15407067a7caa8e910d65ca26a4c8c5547fc7954fe587e612a7030e61dbfc6",
          "427700d04b7fe12add5bc45ac4da816d64ca8d162091ee59feab124c118d0f4d",
          "55543733fdc02e0ff0cfaffa3b8a08b9c870e921209ff607a66ff464ce740242",
          "d254d3c81016e5559e612006086e884815cc19c49edb07ba74c8175c2d25f5ac",
          "9ecdaebde9d2f62eda7f736b20885c34cd92ae28ca8612dc734824ca03f3bbdb",
          "a391e9543759a09a66674803849a99ef93072070fda15197442e5dd5778a7283",
          "238d7cd30c68b53c6f3780cda57fa8c01a76607e65cc4c6e16045c337c2b5e65",
          "4e2b974b56193bb81fc9fce6f051216dabcf5f04013436270f68fe40d84ed6ac",
          "57e52c45708a44e265968239310efdcd887f81fb861fc0f2d83a6596a52e9805",
          "5faee8bec66cbf28c493daa8abdfb2f258673647187ae81b1da305f9ac8f697c",
          "4b4233feaffdf4e13e33ff9f23bfaf0f38ebe25f85166fd30ea8b60407b510c2",
          "def94af5b6fb4cd5cbfea073fdb0e4021897ebab057826064fe32232c25c53ba",
          "170a5f58bfc6a4fbfa72eab9805824396df97699fe1deba21b4e37a811815625",
          "458dc302c020a015ee0da08f083a549ba9ecfc0d2a86772b139841095af21ec6",
          "6fd7b1fa5fb10c22329e5cc0c03356b2a2bd0243e439763cf519626a64492385",
          "ad6c77bc59b35a7da92c02e57c2fb159bc4309abee620f0bac71c1591d589865",
          "9057e8499eda103f1e458e6a97f4e231e62ab73cc355b4bf18bc27654dbdc92a",
          "ce2eb730cdac5691dc8552a31df6d3c7c15b3b53da175570337e050e2ba870b0",
          "da47d9fa85d30862b15df54a4d6ba966afd2e9e6da4fb48d8e8b8389ea896066",
          "81410447f3799d41b9880d0e91549ee67bd898c9b4e52359402a51954abfb80c",
          "9a473df752b659a449bfcec3d1b8daee2c7069a306fc04d88a8d9ba613875875",
          "08e57858f2c7a2fbb7f100356f03e45f56129a0bd6e667af33d718ee2cc57fe8",
          "12f83afcc0368c7387d512b130ce2d2f0d634af5f7db0ba16ae242a0c245d8c4",
          "2a8f20cd4a534f4e2f1cbf7ddaa78943510d135bbcb5355bca1db17f06dd8b58",
          "0faec4d8497062d8810ad1ce83e48af499b292ec962729249ba21d81a4ba2f4b",
          "1edf4379037ecddd6edefe4c099dee8394731eefb5a2ddffcee06944c09d5c99",
          "6ead144d92086c24affe2c3aeb7c64e0e004288b4e9a146852a47f09efe69e72",
          "4abcaaa32d732fae2fc4381083363e3230d737599ac9bda4173e27110c870520",
          "9456b3e577dadf3c60da469f802a28688266924854c0e0b14ae8c8597560b631",
          "33efb5be32bbd4a96900e7137892f060e2c7faca26634c96e90f4d4e5c8abe66",
          "9766587a1682e9d3de06311f4ead3a233fced6e1624fde77712cf25ce1b0531a",
          "cc41e99a28b4c9c5cf82ac981becccf59d0cc33705a4eebac5e2539dec5e36fa",
          "364ef9542fd8e3a40fda22f7462ad53252f4a87d0750061a96ac5ba14d43f090",
          "8266e56360b26130e1748dd9cbf014325fd797d0a777e250f10fa0bf74c75eb9",
          "a42deea30443e1b181af2cadac18d4b9ff981fd9821d06c383117967eb52a476",
          "d8ae286ae89cefdcfd0a5a8f22ac799151dd5c83cdda11cc52cc9d1c30f7636a",
          "b5c640610ef12cdd80971c09a66bcb024da7cb0a28050a9c067b45e0a611503b",
          "81df176ec1b487a68bc29e4a2b79fd974a51b8115c688c5c95d2473ea8aa043f",
          "282b4b03b1313e48f072d4e5248cf3a16c046793183f63602c317298207d8348",
          "89dfef47d547405fd33666f2f9ab87934ef98832b90a8bd80fdfe632acf451fe",
          "a1e903f31bcf975646430362089f5bca16126f75bec17c3f55bad9c690c0eaa1",
          "4e88e6ac72b3bf77325fb5b0c0463c0f52bab9193782be6fdeca4264b5a5e5bb",
          "8452e29ad595dd78ab94eae3ea9d43d25ed4704d4467f772ebce79db1293006b",
          "050de46e305e5d1802965b57e4ec2714c3afe2bd3b0b01fe6202d3f2506fc1d7",
          "e658c2c49622a64221c23eaa2553a6c697a6207cfb70cefd3c12584a8b4ec89c",
          "8258c112659d04a500ed5a2f758cc240a12b1f362b787e68629142b97db89af0",
          "7cbbd8fc57c1732c9b8b760de5d6e7ecf278413a37e7459656ec411e10ff7f9e",
          "a66ad563e9cb5f0033af77cf1962df5c0e95eaf2f92b29865dfa5d9c03334109",
          "83e7e4164a0e22a5028d94d2f47d0c7925c4d4c4b6d35d82dae5f78f8203c12f",
          "292b9bdbbc8d3fe4121f9392d7441a53e597d7f84c6b965221201663b6ce60a2",
          "a5ccff8e0b4760c3f5f3baeaa0135dfbb08109535946d37e369f72076b034a49",
          "97e733271eb2fdfb25f30690c098b27c320d3e6135b8f4166949830383506dec",
          "400252db88c322aa4e00095f57ea471e140dc402f27861baeeab53aeef9e7151",
          "348ab8b290478ce09cfc9d4a5588d90199fd1ca074f8241e57ac844b26865c42",
          "7c4a0b2b4e9b8d260c2d622a04bf447c7ddbc6f7b611fbd3d6e45f63f81f591e",
          "093aa575351b1e0805e8316e4d7260f72d0f0bf96dc6697285dba02f8c6c94c6",
          "7995f7654690c8cddadddeb2c455d8b15037b30e27f1eb06080459729d95edc3",
          "99c888bfe3e984eb24b37bd58745e2c889ebd92e356b35c67bb2d20d37b7c593",
          "359ba0176e7a0b78fc7a20f774222347cd32b574e12569d99d562f4bd1ec110c",
          "8f2c0759719437aade5a9cb003be085b77143b8de9f4b571f02e51390bb792d3",
          "617014a7504d8324d85dda143ba07eaa17c1d447ff8d10e45d30dd0a6827055f",
          "4396694fb4802640ed2a7eb8fd686676b3528775e5eee085d9121865c6a37c9f",
          "d68c4e36c6872ca3e8cbcbfb73e055c01211ee76152a5789f8e9417fead16fde",
          "eda8838b868cf16c4f7f030eabf396950c2fb7fdb6ba5821341a4afd5202cd38",
          "071ce969a28769d56beb1a90cc1f6a34408bfc6d0a07d47c703370fe1652f525",
          "b0c5f15258a45471fbbdb99f713c595233b690ae841ae4446ab48c5e4c9abde1",
          "5029f2c83a83ddb1139b3863860e24f34d2835863262ca3ebc8de174d2a0c740",
          "52920c1d6f9b5f6fee64f3749d5823edc26bb34e3eb9429e96491bea8d49dfd4",
          "265c112f31922572f31fbda777edbcfb95184f6dc436404c61e40c1cd95cc2cd",
          "4f64531e32a67111c5243e19b48b7313bdad921269c60e78a3bb14c5d4084875",
          "4521c3935cc20c451e09ac8dfd70ff52b5e1b6bc4bd094ed8d99fa978e7324ab",
          "16a3d717e363dd3513a3dbb47273313a28f58498539be7a15b1fa9dd5a3a13d1",
          "0c2b6a61f423914e8e14fbb2c97c5a2bb3602aefd5862c6cea75cd0e82f21c99",
          "ab2902cfac5b919027be8f9c68900945223fe87665abc87964e34a799af84cf0",
          "cf401b2072874cc640ceb5f09778c6f39e49f8def15ab2c3b987a6ce8c1a1afe",
          "d23ed24334f59ed8c3a43c350497aac15efac89c35b3c5c8ef7bdb06fe3af8c3",
          "5b5cd0b100e75b66e47c910d560586564a273e584e611d05b66c441da47b5069",
          "f3f9c243e7ba747954cd67f876f362fd42b58f3ba328ebda884d9aab0d23db4c",
          "224123ee1a44a1dcf72e823d5af9e768b7788c2e130b32d6f58393241e2462cd",
          "918af97b36445b02c88bf1fb020cacc14ded3f21ca525c94f95cba713150d042",
          "d052dbfe644b7b0ba98fd6f557ef28602c7f5eb85d5fd4681fa5d697eea20f62",
          "077cbaea5fc2b7b516a12bf5ca72ad8f18e17ee9f914df78c1aa017bafd8533e",
          "01362b816735dd657a2ec54788807a7a08ee0853469b5c3d99641b7d086ba849",
          "c3e338faab96dc580f399365de100a8ec4ae74c94392320a36ce8bdec88e8f33",
          "88183d4fbab54821ee2baa3894da15ee281efb276e9f906917ea28ec6e3ca28c",
          "6e36cf0812c91593060041b84fd1e76cdb527a04371a2727f8261f6a08ae049a",
          "bb9837f261300679b849b7788901ea96ae9317a8026e0889fe55c9c55c6402df",
          "8eafef9c1124366fe3c0aed06720c8043e81958df98d0e6b32174d7757610dea",
          "6cd3518e9ad02aa6371d1fec8b63e16aa93024ed0dbf13e3288ed295128328d1",
          "8ba45419dafc69adc3b13463f550709d1b9c8a8152c85f146af735b79b5a6ca0",
          "76959d2dac1eb970579fc7d1490d92392bbf226ef5d89e0932d1d2cd9ec6009b",
          "80c187ed0b58643e0372ccc3be148fdcff3cae97ef1ec7b31f42008aba9a098e",
          "92edf53966a3b065753a1823a2cc47ddaf598ee6c02597fa27cfbce444198500",
          "6f20f0daad71cff08aed070984d6142d78ece980a45610d01e52816c594c77e0",
          "d9ae7c75ff7cc0573d912a8b3eee79207284c7cbcc811af6d494a60dc260200e",
          "570d6a570511116d7cba87e49d7068ffa54a6f285eacdbec3a99171040a14ee8",
          "e704ed0f9a6ad7d0e9f881591e8d1bf3148bc5ae717d5743d20ada89fa1945e2",
          "8623c38fa643aa94e5a5296843fa35fe6ac6bfa8a8a265d636c03d1432e97c27",
          "4e95708c5f6a28578a2b40eb35e69f1365e4171e145f0f17692d82d72e3340ff",
          "5d800f8a84444ad69a6c665f0c9322ca1ca630dfacad6fe686270890579dd27c",
          "4c083f1ec0aa6dac5557e42d148b4a490ee5ea327f1b51efee61925d42d17b18",
          "48cecbf0a0ebc60b10bdd1a92edc4a9b2d49e8e518296daa41d9aaae705a0306",
          "ce285b1bfdabdbeadc0774f065a953edc87d900ff1f7034200034edb33ff08fa",
          "764fe7df54f8e9bcb706bfd42ab9f3f95befa9bf67de6abd9c607364677e2d23",
          "fa2371e1c53a367fb47d464c0fae69a335e227a7c10ced74a6953ade6d452afe",
          "43df19f5a8e7580fb8e8262138e5b59217af61efcb1380e60b36e18d83c21e27",
          "018db5bdbd4799a25abad1ccba33e5ff93a12c38690fa4dd24825958a732d9c3",
          "33990bb07930dff6fcd32dc9cc6425632abde135a3491671a2314cd09d4590a2",
          "1c4a02fe2861a61b622c791a9cdf52f099c538ea58537812238867da43571784",
          "a14e91bd726ae41231eea0b123cf9b3d19123fc8f09915a61f7aa31c5721e6ef",
          "4f183aaa53772985456b558c7f2cec0c970fae3fb5d1cdd747b5aef42348ebb4",
          "e8c8c2eed347f18d8c90b64edefe7089ff1b6a679ee028adf87ac033440b7f3f",
          "2c4784714cab448820c8b9f81283457af3927f8e0212f35276a6416b9410c32d",
          "baf13edaa41828a34b0adc34f2b76cc9fd8f9e7baaaf377464ff26fde5ecab9e",
          "469349c8aa6fb88d3c91579308886e7f13a9845e82898d3785c917787c11ee8d",
          "cf7919b624616a66aa55314eb62944161b5d22175913d12b5da3001d2b261deb",
          "ba604679d5dd47385ceb2e5db8b204629db87a07b649dcf6a488cedc8b356bf5",
          "6f353235f526f46c2cd1eb8165d145483e0da52b77f7210a0f7707627d50f29a",
          "d9a80bdabcc1ade10815dfc9a071b7c2caa50487510c069fc1139fe979cad6d4",
          "de9d7b9d8496a5c6bea504a5a062d4dcce00f6a729585f13bff55f39c9d85d8a",
          "aad4e0da91cb082e374c470592122fe5bece4500cc61b1ebbf6fa0e4aa13aff6",
          "471e1eca27d5e69f3dacdcef7602ab20e2ddc98b9c239cb262a0c985a4978eb2",
          "2829d6360a5bd6e1c6cfefc7c0a6c5b165244f026208b5123fee9c6f8438949d",
          "313ba82f3becee957b2664a76b534b5245b267e6dbf7a8007fd2216f7551c223",
          "869b1ee0c1c21ebc47296fbdd1b18b275afb646814b36da83fc172b37003a075",
          "2967ffc7ce4d1a47d61a6587109d562a055a75c638f7baa68e6f3e2281b1601e",
          "6e24187ff099ec5d94b496dc0c18d94f3ae6677b710b599f52b26b1d93038b78",
          "e17ef4830ac5e2ab1ef26ff69ba9942fe30bc2dc195bfbdb01e7fef7f2cd69f7",
          "f3aa45c3ea1efa6d3367fb33c582273e3c6e7144ebe83cd37a960cda3d6846c0",
          "7e720634b4cc6c8757a7b10fa4b1d1c6ee77582d9d5e6cab6cff1759fd06cb39",
          "bd1519ff3757661741a417e760943f056dd7b518ae5f404b5e8b323d1d194245",
          "06079cc12d28c571c46f9d282862d8078a430acf825294ed9de514afcd7cfe7d",
          "8a575afd350a12f8fe9a9391cd2f72c344a996a0a2423c998617a965d8f7df14",
          "a6fd0c83ee2aca6a51b8379268eda79d64bd2a3ed2043fbd7929bfddae31a12f",
          "c0f94678356e9bc92836afcf7bbd3f7eacb03c8e3596383dba5a240679167953",
          "9c783cd0908838e50f18891a89ed83b30f4d740327e0c64db7f524be59207eb0",
          "561814034b7f1b93fbfa078d83eefb1f6f727a63977da919794c825524ba4612",
          "67d7094b0ae48ba7adc54d9d30789859d38c20a333f73c8bdeefe3caecd3c1a9",
          "c3fec34970dbe23647232114a3b5bf4e04d6cf7848be5a50427003fda228f740",
          "4e25ee8731d8ece426580b53d2f19bde6225ab733d81e073d7da16b62855678d",
          "f3a6e1c2bb8307d7d5f259a15d73b968b73bf69c09ba377fb04079f2380025f5",
          "a6a86947f86717f43444e5bd952730ade4164661a79db4547a3679929b7ee0e8",
          "7b1825b87bd12c293998582893cb68befbe52a629b9b77687d2cece211d4b7c2",
          "92404db058a7f133bc80ca0de2bfe301bb4cddddd0477428bdfb42e81ec94fab",
          "d4ea4abca0c6ae9d950eae7778f3d49c3e8755393830f5ebf6daaeefa7952566",
          "16baee3aaa5e20c2487336e84a1f4b0976b629433de503fd055b8d6482eb7a0c",
          "82851232853d09d55f19230f462e1d9c28a6f510b209f2e6714c77fdc7fb3da9",
          "408dc564c74cc0f7a7d958dc74a8c1773ad53b15e59580eb13897f929e0684a0",
          "00369d989859a9b74211d1b577eebdf6ca34a2c15f878f0e4b4dd78c430e40db"
       >>,
       "NaN12/01/2018{\"amount\":4}",
       1,
       <<
          "fe8b7bf72bc0301367bb3b8567826c712563891a2329bed45bb30fbdd6602296",
          "4781631f32b2766dca9b3cd258b781367f2c7a4a5b643bb8050405b02c85f322",
          "2fc57e60ed28e68ebc624c20145af4d478acd6d34f52e9c6680fcd081b413f68",
          "3d36866591d1d14467f76c1a5296e3ee78ec59a71f180a9b14be194d47ea19f6",
          "ea13a3425113b97cc3e0a5641422b6123484d274c905b17d39f72a24c97533ce",
          "cc31bd297f4e60d4cb05f6f0b58e571c4eb7e6748f7dd21f5e3b5f305d090e8a",
          "44a196209781e4ef09106b470150c3cfda5d721a235261e45ea41922ef8bf593",
          "9d46671e656590c86e47c3263d0a15bab20f96382a421afa94ab1c9a2bf867aa",
          "4a268ffd81739ebc4e7530999a861959d5f11ea0e26eee3f4dd2bcbbd471bc91",
          "01e721b2d57f88dfaa3346ffab20f9128ddb00cfa6debabc971ac6beafae9182",
          "0635d4f7f8bee62676a423fea8bade27c034f0e9972d31774ac05e65b4f87e47",
          "59166f57106e613058813987e176d78cfffd2de05fef49000b4042830e8c35b4",
          "326fb5aa4b062ced0564fe179b672ea4bc38857242b943ea3258595cb4367316",
          "a6d8fc68185535e9fcfffeb0a9047bec4ea8c0efca5ce8f203d56e5e19cd8067",
          "1299c33e478135954431e28659bb1fc35c79e4dcf6aa9fc868c28a90d85102e2",
          "86e49390500d0eb3feb15fb83ac42139bb9f54364b41fe4c094678874527a98c",
          "784591abe24aa69760ac8853def215eb72d5b36c4743f3e71860f89d22cc28d9",
          "291b15d48fe1252c7c55122d700f400c7044c1dbada19c17e56637df3db5493f",
          "7e6d4ead05eb084c1834e8b8b11fe7ad1a236faa7810549c43d113d25bf96ffe",
          "4d2c22e339f235d567a250ffa66e08e8fc9510f6b8b7bec9c07f423c4cd86f49",
          "e2fc12d9ccd788cdbe32f468c446e58e5327324c206cfa59a734a36a3240e617",
          "ab8b4042701ad734a3c130a1fd8f6f0aed11d7cfc93f4604cfbaf84f1b95d40c",
          "e967883582f5a7d3ab96bf56a2c6fa72499edfc3bfb302ab6c29446e7d278d27",
          "368b9770f98b39ba6555754cceaaf932984c241554dea270acec19ecef58f462",
          "5ac74b537e4b9b1d0a2a08b9f03a0a986f1a917c8ebe3371b48a77b60c2c19a6",
          "f8a140bfce1d097beaa2710ab62d4b6708d154ccb0d77e1bfb7af6a3881b1027",
          "a62553c5b3957f3ea287055e54bb90a3a8eb44819ab6ecca44ac23e4375afaab",
          "76a827e93ddb480c1f9d2cc6da8d7b095032f716b0711fb0971dc6fb5a8de18f",
          "2909f49583cf7920ba2e9dd560cdf4ff2456326fbcfeddf477025b982e7229c8",
          "c080b5032457954135e0c634caea42807948f7dc2acc3702b09f2b02f7df2a1d",
          "22fcde4495fb63e7d5990f613025901b5302d6a5911ecb7cfcdb35f09dc9f3a3",
          "ce8c1423a1b203bfee44ebcbc3fab4651d30d017276e878ede719859b8065bab",
          "b78c5dade47c9d81c3bd89ba245da0b7b2fb2056cf98bec6928487cdfdf2c49e",
          "a3ab4013206218244a410843c3efd9c60184f22412617456a715ed76c78997c4",
          "eaaf2e8ebf0b0baa46a1f13147c9f890af347a053432138d77463ef7d14a1e6d",
          "ea4a601ff482dd7e8c36fddee4674e8d0955f539efd8095f75f244e274d6e398",
          "0cce534fc9ae8c4ee6b13ca0270d770853ddf85d56af0a6810950fa6d5c47f4a",
          "e32f437644d0f2e69e3be58fabab2703c4f53261a498ee09ce2ea4a3854de2a9",
          "f15750c8a00e37846d6145a5165a158a2ae03690ec7690f1af2905615f50ac16",
          "23934a065f5ead78ba6defa982318b0f2d2397cb0db53bbdf2b41a86454ca530",
          "65f21b3ef0f6b7ddacb3e0bf10733c952bd18f7c9af44d5e658183c2456b5f1e",
          "f18a100f506b5f4f71fb63dd549e9cce507e14b2e96b06c89b9f24e2d3a5e306",
          "e6ff4aa52855eaa657acaa0779cf0b43246f9b9e43242c9432e013e4908e493b",
          "a25d07fb44431c1061b8eb009d15c3a96cadfae15e231b33ac28599b5d86777d",
          "688de125d908ea9b1f85cf928d4b34e7ad6294717dcfd45e3cc430f268073cf5",
          "30652bd80b4b176f03bb59ea391ade4bb4a6f42ae91eec7664942055f9c1a9fd",
          "32f2b371ef92d972de4246963f43b598a3871c50c38d69a93e25fec728b2f9d3",
          "8dc0802f21ff7f821acd8a09683d553b20c78cc3aa779c1c412b88f75c032298",
          "ac03cfce127783e553c60a5e34ca84155c91499a0527ad2cef8ebf674a0f33ab",
          "72350f09476f00113ed901f12f5d75e9614e98f327263ee457c2c7d8a49a049e",
          "995e7e44e65bfc6ec4aa4d145154df88ee40e9939e8b230c88a3421f4f01dbe6",
          "002d92db9822679b8679c188cb0c2284102ad5d4c2a80091559dde02918147e4"
       >>,
       "NaN21/01/2018{\"amount\":24}",
       1,
       <<
          "46896cb15d7c1c2133b565449139d0fbc0bf82be7990de11f2e11215f8108941",
          "a3cb798a9b801a0b29e33e044834cc3045f8268e6e050df31dcd6814a99aa990",
          "9b12c8625f4f37c17e9037e72f65b400b664cbfa8eaf66715ee71738762c5953",
          "f63394e122a8b59ed0943b3d254963ae1e882a0e2e531a7b98685cb3315957b7",
          "d9def82f0af71dc16af8e67fc3c3adcde767d570e9abb060804d0e11cd22f991",
          "1696ee6aa8760e30e8e2dedc571334202d50d4f111fc6dcfe3ab8b7ffdf3ab5c",
          "fc9ca3cac240396415c04d0c70dcc040a7898a3efe7f64e71f9f2431f8e81286",
          "b0a1151586a26108504e209043fbe7df2ceedaf4f5e58a731993ad90b158062f",
          "503c6b7325c723f9105885a112dd876f876a4b642dbcdb7a2cfa639235e055f5",
          "ffd7659011cbc0d644124dc113cb0722e243926228f5f88cd69d2c49e00c4064",
          "0cf18bcdd54fe2ee2d3835e116d7dc33c18fce2587f9b3390a416e1c88ae8540",
          "a8f7d15aa91505d769220e82600b5ae23e1739a2bdf19d9f2e0d3e543b8ac33b",
          "ee2d9f689d60fb3137ffce0908d5effb3e2b7d3df08bb62e6367c3f5c7a61bdc",
          "2367d3f6c92c701a61e00168220cb986144398b3f2ca67577f1fae7733187865",
          "d5feeb9ccd7c2a03846e38a7cdbce51c075764275a9ceaef1bfe8756eaf6abf7",
          "42e8ac26d8861599c64e11924c0776aa02cc5efecfc4a0ddbfb2dee5640cce23",
          "9cf5ec93e15da7be9edd530f6f3ae6ea36b982af752f8d524588e6734131e76a",
          "99686659ec00c16dab33bfc667b6ffd3d58e2a9676e09967354485478f8e6db5",
          "07c4135e5a4b7ecedf4c507f1eaf9b36297e73bcfd7f13870de988ed001f86e4",
          "6dbe83b04b8d5dd20c8c0896b23c6b57981d1a85090705f469ec27ba6fbe3e41",
          "09ed42898040b671243628c2e714ca7398293c1fe864fb3e3a5912c1a93b53dc",
          "39ba4953c026d374b8bb832a4912755586d85cdf9c9b7efc2975c0cc45fedfe2",
          "1392c7893971a99d8f1b8865f1aadd6723c14b8d7f9d8c6861321507900ab7c7",
          "c6a014b4839116ee8c533713ec9d6ace799a9d9042b9f8b7edb14a05ce096482",
          "e4b1013969fc5a1babc1f265541f53c51ec562ad3b65d007866c5e74e8a052db",
          "0fd1ad0a6609003b7fd7cb09c32765ca6b43be2f055de016ee614d7bed542feb",
          "5b35a10176384832e6bc9d8d06eb3f4e5afc7a2aefadfa279b9ebba8c410582a",
          "17a5df25662a10d044922197a9a837d140345f8ec7aa2fce03929dee278a760d",
          "118d1f76b3397d3da2d66a0c1fb77cbc55645bc01a4c46814e49638cc03c381f",
          "67d6fcf9697f6b22018b4c643f421ce88b7f95e99bc429df964038409f0ffd8a",
          "f920ab135d0d6b4528bc60ce51717733ad4257b8e95adf40750118b3ba1e07aa",
          "53f456788da8521a2815b89f6b1157764bb8c62d8b16c56ac67c848b8429bb07",
          "52720634f1e018f92c403a574421d284b2759b093de818489b874a71fd2df8ba",
          "6a8dca9f0bad53e7ba6edd5ebea7e086434822600af63c28acc0e837216df040",
          "79ab13327c118d1c060f42a7b5d150b2e29c5e1e9b30b937f1f013d635f96cf2",
          "3d1dcaec2bc3c99f47398d0cec4020f679e381c8c52312205548c148241c0232",
          "f6c99d6c9429ccc694e7a9f6633eb6892224689816900b9522efbc12ab29ff31",
          "172e018e73645db0f6edaa36dd8bd3c1e54942ebfb573b603a583fcac62e0ef8",
          "64cb720b535b43b57b724a75f89f6b92e2b293e08269e7c541f5318f9df5758f",
          "cff58dc9fa244df74d9392100a3f9ef3cd93855eae363ba56dfcbeecd447c09b",
          "657aacc1411cf44ccfaf7fbe0b999bed7c99ee06e8f4325760c4433517d384cc",
          "04cea663797dc8b4b27e2bbae97dd0a449efc9561466edf000c37ef4c10655c3",
          "01c88edb4a601dfdef158353c453ed047ce88c404c3dd4b2de77edddb31352c8",
          "1cbf61f4145daee61c3be5f83960bce4f6b43f1ce3de435247f43020806e4cf4",
          "c305c6db23bdf5faec70351f0eec507e13c5b10ea9b4c02735f652fb81b40071",
          "546c8fbfeaaa7fbef02a6a110f32cc1ac73f53b234cbb6490b6fe4624f9e07bc",
          "b6f1c92a5d9aedac51d63f991e2196d747bd3a1e92f929b798b07dea367089a7",
          "97d5062442920c3e3d2267d819e1862e7776cd9f56f44c8dbb8ef115ef122aab",
          "b371892b1c5b17d61abd05b75ffc6ee0457c0037fa354a7100d04bfce2249cc2",
          "08a907a42773b7ba3e02d6d1e6a5b63846f9a95971db28210dd51631ea756d01",
          "f224bc6a4056e2b21ea15286d05ba762b5bb422ffb566410320fd6c134978ee0",
          "c0e0ae5114d0c7f8980fa732646a1e052438cff5bd05baf9ac2bb3629054a016",
          "683017f83d8e40c33753884b3263235bd017f7292ee66b239bfb94f512b64b8b",
          "23db5dc315db7a558d39bd04084e849d09d615cf54bdbf213719e05044eb6529",
          "a8ae244f17e7faa685d011cc70068e9a4dbed4be253946a38106209b4e13216f",
          "296eb7af1484689b170a07d943d5d008d8d06178c88cd3e751299d3ba5d1d423",
          "527dfdec33dd7b45d82182b917a702be0af15354a878d0e02cb455db839a6751",
          "786961487d6ba1052f73b206648e251b53e6910efba3ba314f3ff0cb76f72c75",
          "712ac929dc42daf01ed15a795def9c3e386d47a735f14ceb713889d601399d8e",
          "7b39f08e7d0c19769ab959280b7b6faff7fd77d51e41b861718bdf3890545329",
          "28f1681ca0204602d27a730cee6ea6a4ca27d92b729c9d4ce63a750c55839978",
          "2a046d358b4f5cb5e2553cbcb0390e2325924bc012748f0506656a267fea6721",
          "9a43f3ccc15210b4a4754c02b51a79571b2418461b17ffca0b968fcc442fc00d",
          "337ec0e0cb672f46b95db7839f2576ddbf206bffbeb099c766c11a31a8a29d78",
          "ec998a56611bc37ff39ab1f7a9fd2e82cfde071878cef21d94c77f2dfdb64da6",
          "bbb399912ea35c6e8d3c751ca11635d90087b2d7eaf41e98b4550e156e12d305",
          "8940b8063ae79656e4159f48a6249a5204c47f2269ab3f8237f7d3c2fac6bf8c",
          "b0e33e020f3c6bc6dec7d15fa086a905695d81ede58c435af538f501e89155ce",
          "63df4c96bf0580c3fb82f245a2aaddc357edbe5e7dd5e4990973576d9610b9a9",
          "9f42ac98ff75cb3934571ed102a5612626b546a82bdcf270fee193b1e4fb180d",
          "0d2430fd6205eb3873c4dad86da7ceb0815762889ac15ff433ef2fba0173b300",
          "2e5f927032e5f0dc9ea8440750819d1a63a53184640ef156ea589fa607a5b601",
          "a696a535f37e48473745aaf887e6f4ca08d170f486a9364790f5fcaf8a6063ab",
          "04b2b71cd9e1b2aa253b4e7b6eec534ce57defd150c6665f5f030c92bfcbaf03",
          "870ebdf9c6c4571b89707fb94ec30c5610766b8e81c5ad2d10d95827ca5df8f4",
          "a7c602c3ce67b12c75acfc95887b2e00984998c857538d9c987a758c71117044",
          "25cc782904fcb0d128cffd6f707ece00481f2bc9cf4d0ea014b739a344638b99",
          "9cc5cea23819d099ace98c23ba376591042bc4549f3ea647e35358227533d6d6",
          "c2962b6667b3386244879c25d0e9f9fa87837f36b1b68adbbe95dffb9c40331f",
          "d3aee6661abb51815e8e88b3f3a059c4ea014d209128bb933a8c0b75e0dc2644",
          "77a409880e68a603d1c36a60f275342e7cf25a6670b99092bdeaaa3bcbe2e73c",
          "11d93a98682d2c8ac8c40500f17315d9ac8eabe48f01007fec6b4e949963b9cd",
          "152ef1249d59a02bace77415931f9d60708bf28229f90a3b9d6a72df7d64e73c",
          "fd813f74f5aeb65698ee2e240c55baba26c49881ae235e21af3cd5f1aff6f39d",
          "84f4c1ea331fa1403b791b29f3f1e8d640a82b9ddb25fece10629224a9dbe983",
          "35d685ba62ababdcde96d871531d44cd608302c8b74f7d0de21f90380aa5f644",
          "96856006e379ee624d414a31ee96ecf0039b400a5e3c87cdb57602bb03a51e5b",
          "3075f6450219eb5458c49848ee78f31122ac961592a5c07bf48024864ffea805",
          "b673f78ca599c6608a08c7d1472f18aa63bf2d80cef034ab94920d8c10c3cf49",
          "bc415dd983312e344e592145e4aaa08e5ea7100cbcf45643753935d3fba5815e",
          "98995f1ab212c29ff6352dfccafd0fda5bbbfe9e683b26d7996f4c6b690e1a1a",
          "f43af2aef0ddc2e617faba0817372746f7cd72e419b7a24adc9003874d028a74",
          "7c8ab9591638bf48d1708a0dda3890608e0694299a7832301a017342876c1bd5",
          "523a9f5f4cb16a94a785188a77032df5ece9325d1361e19c4631a4eb35dbd8fe",
          "d34f18de44cff5dc7e83322a7acecbefa094dba4f778f4a7431e34cefb6bad90",
          "edd2fec28789b460f5fe1d66cb9891d0e978b7401d875241639e458c5a0634a8",
          "49636900a65f8ff09b38ea239b596e0f81b3bc4ee7b06f2b2223533e19958c16",
          "ee34fade9c294b5edc5d91786118b9833e0d265efb89a6ca1ebc9e98653eb41c",
          "f7560df78f32b626fe55b381825210714691930abb1d670f13f1c533aa0cdab9",
          "dee169ed3f16bf5883eac405e401206c5b6f298513fa591a84ac388c2beb6699",
          "ca1d93f395553d959084354ca137951498f2cb3a1133d41769b8c794892853ce",
          "311b7b9af15c4c5a8cae97f942aa7949e1bc13874b179af084658ee37e1bc143",
          "09d6d7679174337f4cac9a58548b6dff3fc51f3a44555c26cfa2cd97dcd461a8",
          "594584eec70c5f17c2d40da3fba905f486aa96bbe4e5f25fe9b33bc2d1ddec00",
          "139b306b40889160cf3422bb8ebad2153c85c43bbe7ab1524207dc76d6820804",
          "8ab19d0ea85d1ebe6b2ee156a950c941b537b7c125b94d996dddfb79c609faf1",
          "fd56a85966cc440b706311ec5e1a484601086568aff90dd4725504ddbac5b78e",
          "a0cd66da6d86d4f7bd261cf6e68e793a65f1fc6a77fa6801c28c6ff0146ddf38",
          "5ef0cf28cc79a658e625509f4c2398e489d9c06065fb551a3a6dfe9aa48a5ab0",
          "893c3162c8ad6071099d6f831acb82b3d9a49caf8ed06982845a4698cab6e551",
          "e9aa62f6b5a8dad5beb931552cd65982548718733c7ee06297ab62c9554ab68c",
          "92bd2b7b0112bc8ee9ed31015ce517e9afb7bd237ec40bff6cd426672c737408",
          "4f3f4bfc439bf2aa43d0d2ee66400fd010ff56a40181d3f9270fed8fda820cef",
          "9ca8dd88366a41e2f8212460ea270efd467eca070a36b422f074e8aac5529645",
          "f4139a2bad1d00fafab846e0f84e474e925a5461908c77217e2e634c5c8d2c12",
          "d95e8450cede5bf1c6a8c962bacb2f7fc4bd45df32132bfe8fef09cf2cfb1880",
          "747e40e62278c16eaad47bebb75587dec69b44fdf2d635a627805c53295b921a",
          "a30d22c6817ce72b9ebd6f50fdb6f6d3e69582cc0c08e3e510a1a644387ccf6f",
          "7746217062bc1f9b771fbfc6e7b84dae0bd4c5e356b5f53294aed8db1884da85",
          "a23493ac88d8ca4b5a32cf280122d9587bf068005c9e7aa62a6df1435e1dedda",
          "9066b0092806ddd7ae61ebaf51d978e4d4bd6aaed9a9012ab0c8a91ed4f1aab8",
          "3386ebedae38b91b51a9e7f3971f21b1913f53c30f9a9c26b290640cb028d838",
          "22df9a015af1de89651a7339b28fdc6d829fdb346050dd3a40e84553b1f78838",
          "2d2a0fc3542848be3985ad7c8f62d8b118f6f3bd4ec580bfdf48ce49d2d10ee0",
          "9827b9e82cc44f8f13274b1b159f683abef6754f5c1775e938947375335e9727",
          "e7514e449b99832733874deef248634eb85c97b02d765697809458bf7259d164",
          "268b49a57e3aeca524524658cf21b93a3930eee6716c5b42ac30c3f41889e10c",
          "593c80820b6f785a4cdc54119ec0de2b6bf95f8f947fc3ea9696669546c92220",
          "d9e34a7d61b71118f0c75cf7f8299d83a35505fdb86eee20201995d18d36cabb",
          "1f79a756ac4b6d6e439d73f3b1b49542595e74a93b8324e509beb44f6bf0e58b",
          "12c703d8d8d4930d5eee2a44a37d72d6f946a30c2189a55bae941dbc8058c90d",
          "1b8230236286808436b4cd2378408d4bf95c15723ceaf403a31d69c9415dc597",
          "d4da4dcefb0ec9147934f027aff44fc1544971b1cbd1258288d34ef280cf4b4c",
          "ecc077851e97bcecbb0a19ffab4ced72e7739e36f9448558fbe360127e82f51f",
          "9f9c73010285c4f04706ddc49ff5c8b6d8579c6dc2027ca464c2d254d4971b05",
          "d9859e469103e4a7bb4c4a2de01b0afe35f3426a23dd3f29696247e8927fe4d5",
          "ced781f0b77451c4e3c48038d2a4352e6a7eac859855712a88a837082858d804",
          "04fcd0cd7bd22df7ff52319c25bf4f95bbe3ca20772f67c9977fb5ec9047a91d",
          "fa09ac545dbf22d933763feb86cfc5b632a799d0fd6fe48fbb51ab831151cb80",
          "91871aabe76edde3555a1d7967df6acc8fad3639e1ff22c29d886627a836f6b3",
          "afc9ba8f5ddfd6fed1fb71f004106edcb6f0f0135d8b2ba4f2c46f4835a4b33b",
          "0a7a3b8a9e321c47f093a8e0ba406b0f407ca27f133ee7c71d28874d71d15eec",
          "ff70fe4f6e3d077fd48b06f5f0adea985d6bc78d0a5c9c4703192ae31cf51fe6",
          "73dfac296ec787a7fac3d99c226c28e87dad5de4f8dac37ebbc2adeb087f64b4",
          "ebcb89dc06c21bb5c389ef528d03d1d131439e0b392e53a5f507c5fe1a098856",
          "e463bdddb0142c9aa15b3967c7d51bc73e54c26cf471dc6cc52cab1938f4fa74",
          "1f5f87cd691087070c9afca7274143f721bc686f3c60f1d7aadaf49c8515437e",
          "0fc425132638acfc85372dfcd5342adad8c2d939a919d6c421a5e7c4304807f4",
          "b860febfed497772635f82ec450d9112877d0bae2e16f44777edba65aed5e000",
          "871152cae7b9b8d78d4ba81c34948941820a848ca04a5edecff7d80439124c80",
          "70c83875fd69a837e1fa89d698a6b85428fb0fa4d3cfc18e50a6d2883617de96",
          "f4f41809cd32e9268fab6e4604cdad27a56453b227ce2772ad67c9342764cf00",
          "aefd550a1f3e862dd1c41420b19a160064094b516b5942974d7e5596c9dd5816",
          "189d9ceecd50876661d7aab9b19461b28e213b4d0a0495efc98aa8454ba7e8eb",
          "effcaed83ede9b10eb1c130d81122a85a39fcad10e1328a2d5defeceedc2c54b",
          "2fba9214db3f33343819ff1d8af018183baa0481279b0ba8ccfc6f1cfe1000bb",
          "3ecd4ad966eba9cabe4fe857531c55a97fac0ba4684ce9a0bbf4bfc7356b2451",
          "50c5259fe1bceb63fdf4c6e2ee4a9aa73b80256b66c0dd99731b605f9f14b9e8",
          "66d0f81c593a59242253b947aff380c7e70d15e611c1912a5a58b22f3251837f",
          "81a7e3ee6039568ff896c37d3ddb910663f2f18dad87a9f81c304d4c45afbfe5",
          "dfdd94931b08b1ac07581d69ee3adbb75604c600855fd9a4a215402be8d1f7b8",
          "f1f52f2cd16b4437d52ab6eb666ce0ac883e0a2169fda222b0b6a02896c75908",
          "26f88df3e6cbfa08aae6366b607d3c97bd50f5c2223a400dd84b26cd4e14e05a",
          "4e07030990c8f08a51d92be343715a5c66330666bfd29e8c75aaf032550370fb",
          "5e88c43c8d8d40e649b1de2c548fb212a7dd6c011e92a6bb14712678244993ef",
          "f8b164c7f53ce94fc94676f8ebdb910dd21a5f812ce058e492cdc2f41f5af02a",
          "d3053e15b0d529bb6db60b09545898d1fc11cca242d39463a4f0daf18e2a65ae",
          "286d3e347ecf086808c2a1f44a07382e0a3a7ecf6c83b4acfaa8e9f171f7b59b",
          "c8865912ac2c92b10f6b54ade0dc654b610b00785baa2422724d2a32d61e94de",
          "ed6781dd6ce12cb0a2cd97e0593d1031dee4cd19022200664ce22d0a9dcc48c6",
          "f620694cb358903c21fc8959d245e98d8b1053af7a1ae4ae3c0ca79826104c9c",
          "055724dbe61322a5065c96a8f5070ad3e6678dc411764cbcdcd18b11f1c3fef1",
          "a6246f75f4ff71e945b8f0e8cc612cff9155302baea09603e30db5f46bc8cf65",
          "3a3abcf9f8ffbb5140d94999a9fe801c965e13c12893daf920f9f6c89748a550",
          "c4ab23833edace2a117fdb5da05a3a6d42045f18e3f1f880cf819b0157960145",
          "2d82e368174f6dd2f6a788cea982b8915a8986c67f144ef980706a178ca88290",
          "f18fb2eac3daaeb2c523a8d28265e5a7a623540c5539a37a905d31a6a51e2d8e",
          "92449c1ef00bbd4dd4d2df67d88ed309a884874478ee90e708841489f48ae905",
          "40b93a35081d775b617999b6b2119346db26e951c6a06fbed4ad69fbbd15d2cf",
          "011aba214e59ba65f40bdab816baf790da005bcf5a635c1bb1ec60bed708f765",
          "8f5ad07f69ddf70938a08e1e8109fb4289aa644dad482c0e6bb3566e4b216311",
          "eb40e45bd5ba639eedafac334eb36dd460c5a56ce9b2f82dc451dcd4426bdb52",
          "88cec872578c91328c69fec951ccd3f600ab7b2ce4603a2094c6dac55b58b53b",
          "a2de767bd24b0a47ff38ed5d260e9fde3344b50e0f46fad998459f17323bd61f",
          "02c4c0fbc610b8a1fc0a05fe7f69abb3aec38f5200217cdb7d0e7b749d738eaf",
          "a1d968b95291c9cd9bb833e0c30396fb0881857757805d3d66f36db201de870a",
          "e074e2277a8b016ef295c1f91440473d703272dac2e586387b4c89c132669331",
          "0506f799b8172944114842c5dd0b970d6ba142e5cd0b1ecaababe42d8c007bbb",
          "4c1a74afea77ac1f2341a6982c20bb896cadb9ad3ca3f0166a1b149b393b1770",
          "5c9ae746e668b584338f86bc24cc24444f3b51cc6e00b962b7bd91ab01efa02a",
          "1c4372dbd4c0b7b3250444f32052445d86c570af1ff8cac0c4522167bf2f3a70",
          "741dd569fc6a5a7e09b33ce3580f075d816d1837199902e7fefab87016d30353",
          "d648e2e0678cc91d06ff5775d2453c53446ca9a0352b9f5426b924bce9265703",
          "0728e1c0098445dade6a65c7e5e19f985ea2692ce6fee14208ced0233e5711be",
          "6a4661cce4e970b7641e53140393e3fdb478f647de04f08d8c0c1f3fa48c76cf",
          "fb1eec04a11ba2dfdf5c9e409bd3d1dc6adf13c65895d01fc7a0fbba12cb7ee5",
          "d2b9218596efd31253d4fc2523e79c66e6e3e484e2f3146b8c64ac44869f36f1",
          "6bf571699d7f4a5685452e2c774f451902b2ab407400a2e76835c05b57f92323",
          "cdbe8ecb4f26f19b6ea3318cfbe9474854d4b7740b74b53b78310588f59bc309",
          "1b7082db0ad996404d9fe26efcd6ab3ba0d6be5bd0b954514e144bde5e58f75b",
          "69758a10b4daa1467c80b2053e19146a70f73425dc52229bcca37e4cf7925760",
          "d7600c4a11327e6050015e67a56a199b7087b49d61aa1a1c9fb553b408b2520a",
          "bc7d9b588c7560a2a0726b12e4ed46b8db4a59427537767478833ba91cb11d1e",
          "3e5700340f7c3392cd8dea4cc588e44752575a93bfdee18a0ac6c59d55cdd19d",
          "215f7b03ca44c7bdf81768ef7f8d9574ae4b18736db0e5018455529e2045dfcb",
          "f31a40315b702652adb899df9804029d7f77acbf23f745ee88e9f9671d04294f",
          "23ec327ae2b9221fd2157e3c5691292eb14279d6f77b1b8f6c59153d8dae5ac5",
          "25f77acaff3d06189f0a50391f54866ac0060ec1dd93df2b61c2a15509fde2d7",
          "d5a13a8ee4a7e02beaf856df665e9569b80a6bb1dccd204d33e4cc6d07a92891",
          "3d60c2ea58008f5894bed585872a062ad3d9f97bf305e003b71fde074983735e",
          "b424cadb03ede0342075d6f1ac4d71ce16b5c7efb081e23be12ba69f28a218cd",
          "2ca71cbe9c0870c7f02293021209cb49c22c29b2d66f001c3983aeb5c9c4b63b",
          "6c542a7d458be7d43396a56195fc816ce28fcd35f9aa55058350381bd2fff719",
          "cf9e5798cfc617135f00d96dd692941d190f2a16ca7fd238911788f701a21e7e",
          "d06cc7584985441b8b17218767a3083663136a9ce218d62c1a4c792392476cd3",
          "6215aaffa224325bea2167628565ebc61569f13599310447efd1f648e1deced6",
          "7baeb4a801f8a0204a890656e170f44ff323b6617f3cd72145e0744b7b9b825f",
          "6874da6a450fbd9393ecccb92e4554ef671e18a35f30e5771a9628e0c045363e",
          "c4ad5ce3d14492785056f4090ed5acf1f3a1cfab075550df911b619826f18031",
          "40724b92a3e4c85938fff597463868be4aaa2c68f6e554a5b708fb3225bd5568",
          "3811929d216f538f652f41fd4b8435cd79034fbf31f45ebcbccf7084b010112c",
          "804630ea7d1c61bc63483011ff50ca7247615eb691b710024c07ef3aa9039b1e",
          "32d094d619f884861a8699f1e07c8e25dbe6b239bce0ed6bc5b215f968b339a7",
          "de416307b47c82ae796c064d1e8e77e01b84e8a36e2becd7222a74d388bf4fe3",
          "ac60c7d5231a61214dea04810962c005f2ef66f99c6ffa1b92cd443c49005e04",
          "8333245316715bc5610597e406ae40f373dc0d43463155549e476c108d3fc07e",
          "072f254465080bd1e3c5d50f4ab7e44cf6d52fcc086d84546988c66932cc1496",
          "cc17948e8112b118d60c074583a071fcbed474f0a4f833962a8b96e48a2d38bf",
          "2f4dc96abba4262707685d8ed46e04d496766cdc3437ec16aa58d4e1ac87534a",
          "90d43ccf89385df1ae3a3493514e269107a81bccfb8c1176888597c63c752333",
          "8f88dbc512bbd9f06401dee4416aa0050f9c2f37be638d1655fc6ba6f44fb34c",
          "d93267367bb83b5589f5dfd8cf07672cdb9361224e79ac0091e32d87ea118267",
          "bf7439b6c0ef515aa62d565fbdbf904a5b23ff0adf3b9f29bc65a443223dbed9",
          "cc2d39cfe3d4b1baa1d13f402f577fee004c8cc22d35dd859aeb3273f5c4ec88",
          "548978784649f1d3c129e68c8ab52bb39e09110698c18334cd2dff742ae403ef",
          "37f73270e434dc733b76b1a2adbe30548ecd40a4ec7839cb9718949720dff234",
          "9eea3c19a4c2323e03dc2f50378e6df11e5ee2426558642f059ad699a3af4a62",
          "b3e42e29056b5d0acd02843267a7d52825154ba2e5d403fbde89b85138ffcbeb",
          "365670ca120845ff8b2dfa60311abc866a1014232c28dfa5e08e434b2c07d2b5",
          "6a98d902bed39070f8bdee147c2c9ea00b3aa65b939e0e7b396fca84256a94ba",
          "7260ed08a6bdcc833c27b2da826e5e40be5ec2bce0aa20450952832917df6336",
          "a1dcab15ab2d1a5040c9b2257eb70dcfa8f1c4648eb7947f3dd39b5603d257e4",
          "e89f7f600873d678166e2528527da617364f40dadd6a63c1aaf50fbb7572d3e3",
          "65d1441dbf0caced1b4d5a9238f67b64dd4698f5252187fba38496d2a236cfc3",
          "5d3f79909961699497a0ed741b548689b4ac4494118e9a01ba5c4e1c583bb810",
          "1fa10a6a0eea45dd57ee9a20ca3e0aaa0fe55a698745c486f036165c8e51ac58",
          "1b01675883f57d99d7d962b44b633e5eee6e8fcf1d9545d9ce8997b7133de40f",
          "72dd25579373b3654a8cb3377d0349ffb0831dc904467e4fa148412292e6cec4",
          "1b46b03390692a6d8469c1171ab25cc3e0537287e112af8a19cbdd49bd6b4ba7",
          "7dccabfc71e4b80765cc1fafc983e6dfe11152596fe61eff9195b9aad93e76b6",
          "f266d5d0fdd8d3531db70aa5cf1ec23f48a2cc292abc1673491f3acf912652b7",
          "74ef6f42f247dc43d472b3f165398fb765d993cff174b40f1509f1df2edef4e6",
          "c6c9cc303adf6e102491a7e74b14f09535ccfd2a4629c41f3660a926666f7271",
          "e801cdade694e13d2fcb417b62a792938ac7d79c0be15318d02aec67c1ef7014",
          "4d14327f26d5536716fac55d0b95db71d89fdd13ef60b9b0daabdc5caafa99d4",
          "9ab55fdbb4f783b67942f8450992eb6fa518766f75b1a29d077965d821665dfd",
          "f87c47e5792f36a6a9d19ec196d9156b5c7fd8aef547c895f9176222c0bafe70",
          "aef446a96627207125c1655d72674ea55a0e88dd3ef6a856d857037917cebe4c",
          "3780eee916b7c9bdb79331e5c91dc521e5e596b90386765cf9ffc683ecb78e71",
          "240d81c7ac84d7199c0b2477f711e2aa1e5c3d687709114035956c9d3a4c644b",
          "7c0fe669ea3d65fd617f8aa8d6169613e9450bdc3025119113a89182b5b897a8",
          "e073d259b73651b2239fa0bf483bce9f2c1e03a92e8fd1b29cee5b8f080c0a4e",
          "40845d8b582c8145f1f3b3ca39d5cc158cfaf43c2a29fe5da9e202ff9d6a7b8a",
          "d05dd93f0f47809b102252ce7b9b11f1e5b3f469dc6d2932cb725a20584cdade",
          "8502a6af87d4b5a000f702c5a89e22941300a815e7d6889330f62e25c3a1fc0d",
          "372715692bdba14d479e93ad5dd05ea2d0b72adfc3d57a2cfa54fe75eac45851",
          "bb207ef6f40bc5f3ffdf9a226c338efc87eb7a88efa3198c80983169afb563e8",
          "e817a587234c4cb11fc2786fc4cf7fc5bd78b25ea359189e35ce4cc486f2c6e5",
          "008f9dbc51ccd6cf7c4fb59392b757d179580c39f2f619fa54c95270580ed439"
       >>
    >>

\* The function from each text of KnownTexts, as character codes, to its
\* digest.
KnownDigests ==
    CHOOSE f \in
        {[m \in {c[2 * i - 1] : i \in 1..(Len(c) \div 2)} |->
             c[2 * (CHOOSE i \in 1..(Len(c) \div 2) : c[2 * i - 1] = m)]] :
            c \in {[i \in DOMAIN KnownTexts |-> CodesOf(KnownTexts[i])]}} :
        TRUE

\* The function from each text of MinedTexts, as character codes, to its
\* run: the first nonce and the digests.
MinedDigests ==
    CHOOSE f \in
        {[m \in {c[i] : i \in DOMAIN c} |->
             [from |-> MinedTexts[3 * (CHOOSE i \in DOMAIN c : c[i] = m) - 1],
              digests |-> MinedTexts[3 * (CHOOSE i \in DOMAIN c : c[i] = m)]]] :
            c \in {[i \in 1..(Len(MinedTexts) \div 3) |->
                      CodesOf(MinedTexts[3 * i - 2])]}} :
        TRUE

\* The digest of the text s: looked up in known when it is listed there, or
\* in the run of mined that lists s without the nonce that ends it; computed
\* otherwise.
DigestOf(known, mined, s) ==
    IF s \in DOMAIN known THEN known[s]
    ELSE LET Nonce(j) == ParseDigits(SubSeq(s, j, Len(s)), 10)
             Run(j) == mined[SubSeq(s, 1, j - 1)]
         IN CHOOSE d \in
                {IF J = {} THEN Sha256Hex(s)
                 ELSE CHOOSE e \in
                          {CodesOf(Run(j).digests[Nonce(j) - Run(j).from + 1]) :
                              j \in J} : TRUE :
                    J \in {{j \in (Len(s) - 6)..Len(s) :
                              /\ j > 1
                              /\ s[j] \in 49..57
                              /\ IsDigits(SubSeq(s, j, Len(s)), 10)
                              /\ SubSeq(s, 1, j - 1) \in DOMAIN mined
                              /\ Nonce(j) - Run(j).from + 1
                                    \in DOMAIN Run(j).digests}}} : TRUE

\* SHA256(message).toString().  A string is hashed as its UTF-8 bytes.  The
\* library appends the message only "if (messageUpdate)", so for a false
\* message (NaN, what the sum of calculateHash is when no operand is a
\* string) the digest is that of the empty message.  Any other message is
\* not a word array, and has no digest.
SHA256(m) ==
    CASE m.t = "str" -> Str(DigestOf(KnownDigests, MinedDigests, m.s))
      [] m.t \in {"nan", "undef", "null"} \/ IsZero(m) ->
            Str(DigestOf(KnownDigests, MinedDigests, <<>>))

\* String.prototype.substring(from, to) for from = 0: an end below 0 is
\* taken as 0, an end above the length as the length.
Substring(s, from, to) ==
    SubSeq(s, from + 1, IF to < Len(s) THEN to ELSE Len(s))

\* Array(n).join("0"): n - 1 separators between n empty items.  Array(n)
\* throws a RangeError for n below 0.
ArrayJoinZero(n) == CASE n >= 0 -> ZeroString(n - 1)

(* ------------------------------------------------------------------ *)
(* class Block                                                         *)
(* ------------------------------------------------------------------ *)

\* v1 + v2 + ... + vn, the + applied left to right.
RECURSIVE PlusAll(_)
PlusAll(vs) ==
    IF Len(vs) = 1 THEN vs[1]
    ELSE Plus(PlusAll(SubSeq(vs, 1, Len(vs) - 1)), vs[Len(vs)])

\* The operand of SHA256 in calculateHash():
\* index + previousHash + timestamp + JSON.stringify(data) + nonce.  When
\* JSON.stringify throws, so does the expression.
HashedText(b) ==
    CHOOSE r \in
        {IF json = TypeError THEN TypeError
         ELSE PlusAll(<<b.index, b.previousHash, b.timestamp, json,
                        b.nonce>>) :
            json \in {JSONstringify(b.data)}} : TRUE

\* calculateHash(): the digest of that text, or the TypeError thrown.
calculateHash(b) ==
    CHOOSE r \in
        {IF text = TypeError THEN TypeError ELSE SHA256(text) :
            text \in {HashedText(b)}} : TRUE

\* new Block(index, timestamp, data, previousHash): the assignments in the
\* constructor's order.  this.hash is assigned before this.nonce, so the
\* hash is computed while nonce is still undefined.  When calculateHash()
\* throws, so does the constructor.
Block(index, timestamp, data, previousHash) ==
    LET b0 == [index |-> index, timestamp |-> timestamp, data |-> data,
               previousHash |-> previousHash, hash |-> Undef, nonce |-> Undef]
    IN CHOOSE r \in
           {IF h = TypeError THEN TypeError
            ELSE [[b0 EXCEPT !.hash = h] EXCEPT !.nonce = Num(0)] :
               h \in {calculateHash(b0)}} : TRUE

\* MineCondition with the target one zero short: substring(0, difficulty - 1)
\* compared with Array(difficulty).join("0").
MineConditionShortTarget(b, d) ==
    Substring(b.hash.s, 0, d - 1) # ArrayJoinZero(d)

\* The while condition of mineBlock.  this.hash is a string in every block
\* the constructor builds; on any other value substring is not a function
\* and the call throws, so the condition has no value.
MineCondition(b, d) ==
    CASE b.hash.t = "str" -> Substring(b.hash.s, 0, d) # ArrayJoinZero(d + 1)

\* The loop body with its two statements in the other order:
\* this.hash = this.calculateHash(); this.nonce++.
MineBodyHashesFirst(b) ==
    LET b1 == [b EXCEPT !.hash = calculateHash(b)]
    IN [b1 EXCEPT !.nonce = Increment(b.nonce)]

\* One pass of the loop body: this.nonce++; this.hash = this.calculateHash().
MineBody(b) ==
    LET b1 == [b EXCEPT !.nonce = Increment(b.nonce)]
    IN [b1 EXCEPT !.hash = calculateHash(b1)]

\* The while loop of mineBlock from block b on, as many passes as the
\* condition asks for: the loop has no bound, and the block is what it is
\* when the condition fails.  The passes are run in groups of n, 2n, 4n, ...
\* and each group by halves (Passes(x, k) runs at most k passes from x on),
\* which keeps the evaluation from nesting as deep as the search is long.
RECURSIVE MineLoop(_, _, _)
MineLoop(b, d, n) ==
    LET RECURSIVE Passes(_, _)
        Passes(x, k) ==
            IF ~MineCondition(x, d) THEN x
            ELSE IF k = 1 THEN MineBody(x)
            ELSE CHOOSE r \in
                     {Passes(h, k - k \div 2) :
                         h \in {Passes(x, k \div 2)}} : TRUE
    IN IF ~MineCondition(b, d) THEN b
       ELSE CHOOSE r \in
                {MineLoop(h, d, 2 * n) : h \in {Passes(b, n)}} : TRUE

\* mineBlock(difficulty): the block when the call returns.
mineBlock(b, d) == MineLoop(b, d, 1)

(* ------------------------------------------------------------------ *)
(* class Blockchain                                                    *)
(* ------------------------------------------------------------------ *)

createGenesisBlock ==
    Block(Num(0), Str(TxtGenesisDate), Prim(Str(TxtGenesisData)), Str(TxtZero))

InitialDifficulty == 2

\* getLatestBlock reading this.chain[this.chain.length - 2] once a block has
\* been appended.
getLatestBlockOffByOne(c) == c[IF Len(c) > 1 THEN Len(c) - 1 ELSE 1]

\* this.chain[this.chain.length - 1]; the sequence is 1-based here.
getLatestBlock(c) == c[Len(c)]

\* addBlock without the assignment to newBlock.previousHash.
addBlockKeepsPreviousHash(c, d, newBlock) == Append(c, mineBlock(newBlock, d))

\* addBlock storing the new block in the last slot instead of pushing it.
addBlockOverwritesLatest(c, d, newBlock) ==
    LET b1 == [newBlock EXCEPT !.previousHash = getLatestBlock(c).hash]
    IN [c EXCEPT ![Len(c)] = mineBlock(b1, d)]

\* addBlock(newBlock) for a block object the chain does not hold yet: set
\* previousHash, mine, push.
addBlock(c, d, newBlock) ==
    LET b1 == [newBlock EXCEPT !.previousHash = getLatestBlock(c).hash]
    IN Append(c, mineBlock(b1, d))

\* addBlock(this.chain[j - 1]): the block object passed is one the chain
\* holds already.  ref[k] is the first slot that holds the object of slot k,
\* so the slots with ref[k] = ref[j] hold the object passed: the assignment
\* to previousHash and the mining write to it, and the push stores it once
\* more.
addBlockStored(c, ref, d, j) ==
    LET b1 == [c[j] EXCEPT !.previousHash = getLatestBlock(c).hash]
    IN CHOOSE r \in
           {Append([k \in DOMAIN c |-> IF ref[k] = ref[j] THEN m ELSE c[k]],
                   m) :
               m \in {mineBlock(b1, d)}} : TRUE

\* The loop of isChainValid without the comparison of hash with
\* calculateHash().
RECURSIVE isChainValidLoopNoHashCheck(_, _)
isChainValidLoopNoHashCheck(c, i) ==
    IF i < Len(c)
    THEN IF StrictNotEquals(c[i + 1].previousHash, c[i].hash)
         THEN [ret |-> FALSE, i |-> i, raised |-> FALSE]
         ELSE isChainValidLoopNoHashCheck(c, i + 1)
    ELSE [ret |-> TRUE, i |-> i, raised |-> FALSE]

\* The loop of isChainValid without the comparison of previousHash with the
\* previous block's hash.
RECURSIVE isChainValidLoopNoLinkCheck(_, _)
isChainValidLoopNoLinkCheck(c, i) ==
    IF i < Len(c)
    THEN IF calculateHash(c[i + 1]) = TypeError
         THEN [ret |-> FALSE, i |-> i, raised |-> TRUE]
         ELSE IF StrictNotEquals(c[i + 1].hash, calculateHash(c[i + 1]))
         THEN [ret |-> FALSE, i |-> i, raised |-> FALSE]
         ELSE isChainValidLoopNoLinkCheck(c, i + 1)
    ELSE [ret |-> TRUE, i |-> i, raised |-> FALSE]

\* The loop of isChainValid with a third comparison: the current block's hash
\* against the target of InitialDifficulty leading zeros.
RECURSIVE isChainValidLoopChecksTarget(_, _)
isChainValidLoopChecksTarget(c, i) ==
    IF i < Len(c)
    THEN IF calculateHash(c[i + 1]) = TypeError
         THEN [ret |-> FALSE, i |-> i, raised |-> TRUE]
         ELSE IF StrictNotEquals(c[i + 1].hash, calculateHash(c[i + 1]))
         THEN [ret |-> FALSE, i |-> i, raised |-> FALSE]
         ELSE IF StrictNotEquals(c[i + 1].previousHash, c[i].hash)
         THEN [ret |-> FALSE, i |-> i, raised |-> FALSE]
         ELSE IF MineCondition(c[i + 1], InitialDifficulty)
         THEN [ret |-> FALSE, i |-> i, raised |-> FALSE]
         ELSE isChainValidLoopChecksTarget(c, i + 1)
    ELSE [ret |-> TRUE, i |-> i, raised |-> FALSE]

\* The for loop of isChainValid from JavaScript index i on: the value
\* returned and the index at which the loop was left.  When
\* currentBlock.calculateHash() throws, the call returns nothing: raised is
\* true and i the index at which it threw (ret is then FALSE).
RECURSIVE isChainValidLoop(_, _)
isChainValidLoop(c, i) ==
    IF i < Len(c)
    THEN LET currentBlock == c[i + 1]
             previousBlock == c[i]
         IN IF calculateHash(currentBlock) = TypeError
            THEN [ret |-> FALSE, i |-> i, raised |-> TRUE]
            ELSE IF StrictNotEquals(currentBlock.hash,
                                    calculateHash(currentBlock))
            THEN [ret |-> FALSE, i |-> i, raised |-> FALSE]
            ELSE IF StrictNotEquals(currentBlock.previousHash,
                                    previousBlock.hash)
            THEN [ret |-> FALSE, i |-> i, raised |-> FALSE]
            ELSE isChainValidLoop(c, i + 1)
    ELSE [ret |-> TRUE, i |-> i, raised |-> FALSE]

\* isChainValid with the loop started one index late, at i = 2.
isChainValidRunFromTwo(c) == isChainValidLoop(c, 2)

\* isChainValid checking the genesis block's own hash before the loop.
isChainValidRunChecksGenesis(c) ==
    IF StrictNotEquals(c[1].hash, calculateHash(c[1]))
    THEN [ret |-> FALSE, i |-> 0, raised |-> FALSE]
    ELSE isChainValidLoop(c, 1)

\* isChainValid(): the loop starts at index 1, after the genesis block.
isChainValidRun(c) == isChainValidLoop(c, 1)

\* The call returns true.
isChainValid(c) == isChainValidRun(c).ret

(* ------------------------------------------------------------------ *)
(* State                                                               *)
(* ------------------------------------------------------------------ *)

VARIABLES
    chain,       \* Blockchain.chain: the stored blocks, genesis first
    ref,         \* which slots of chain hold one and the same Block object:
                 \* ref[k] is the first slot holding the object of slot k
    difficulty,  \* Blockchain.difficulty
    cand,        \* the block the caller has constructed and not yet appended
                 \* (a sequence of length 0 or 1)
    tampers,     \* how many external writes to stored blocks have been made
    last,        \* the last operation: its name, arguments and result, and
                 \* whether isChainValid() held before it
    got,         \* the value the last getLatestBlock() or calculateHash()
                 \* call returned: a block (a sequence of length 0 or 1) and
                 \* a hash
    call         \* the addBlock call followed pass by pass: the statement
                 \* reached, the block being appended, the chain length when
                 \* previousHash was read and the difficulty passed

vars == <<chain, ref, difficulty, cand, tampers, last, got, call>>

\* No call in progress.
Idle == [pc |-> "idle", block |-> <<>>, seen |-> 0, d |-> 0]

\* Nothing returned yet.
NoValue == [block |-> <<>>, value |-> Undef]

\* The longest chain the model builds, and the number of external writes it
\* follows.
MaxBlocks == 3
MaxTampers == 1

\* The longest chain built where the caller may mine a block itself before
\* appending it.
MaxMinedChain == 2

\* The largest difficulty the caller passes to mineBlock directly.
MaxDifficulty == 2

\* How many passes of the loop the model follows of a mineBlock call whose
\* target is longer than the hash text.
MaxMineIter == 12

\* The arguments <<index, timestamp, data, previousHash>> the caller
\* constructs blocks with: the two blocks of the demo,
\* new Block(1, "12/01/2018", { amount: 4 }) and
\* new Block(2, "21/01/2018", { amount: 24 }); the first of them with
\* amount 2, whose hash at construction already starts with "00"; and a
\* block with a numeric timestamp, a NaN amount and a previousHash of its
\* own.
BlockArgs ==
    { <<Num(1), Str(TxtDate1), Obj(Num(4)), Undef>>,
      <<Num(2), Str(TxtDate2), Obj(Num(24)), Undef>>,
      <<Num(1), Str(TxtDate1), Obj(Num(2)), Undef>>,
      <<Num(3), Num(1516492800), Obj(NaN), Str(TxtZero)>> }

\* The block that a payload's toJSON method appends when it calls
\* chain.addBlock(new Block(...)).
HookArgs == {<<Num(1), Str(TxtDate1), Obj(Num(2)), Undef>>}

\* The values an external write may store in field f of stored block b; the
\* demo stores { amount: 400 } in chain[1].data.
TamperValues(b, f) ==
    CASE f = "index" -> {Num(3), Str(<<49>>)}                    \* 3, "1"
      [] f = "timestamp" -> {Str(TxtDate2), Str(<<53>>)}           \* "5"
      [] f = "data" -> {Obj(Num(400)), Obj(Null), Cyclic}
      [] f = "nonce" -> {Num(0), Str(ToStr(b.nonce))}
      [] f = "hash" -> {Str(ZeroString(2) \o <<102>>), calculateHash(b),
                        createGenesisBlock.hash, Str(<<>>), Undef}
      [] f = "previousHash" -> {Str(TxtZero), Undef, b.hash}

\* What last records of a step: the operation, its index and field, the
\* value returned, whether isChainValid() held before an external write, and
\* whether the call threw.
Op(name, i, f, ret) ==
    [op |-> name, i |-> i, f |-> f, ret |-> ret, valid |-> TRUE,
     raised |-> FALSE]

\* new Blockchain()
Init ==
    /\ chain = <<createGenesisBlock>>
    /\ ref = <<1>>
    /\ difficulty = InitialDifficulty
    /\ cand = <<>>
    /\ tampers = 0
    /\ last = Op("Blockchain", 0, "", TRUE)
    /\ got = NoValue
    /\ call = Idle

(* ------------------------------------------------------------------ *)
(* Operations                                                          *)
(* ------------------------------------------------------------------ *)

\* The caller constructs a block: new Block(index, timestamp, data,
\* previousHash).
NewBlock ==
    /\ call.pc = "idle"
    /\ cand = <<>>
    /\ tampers = 0
    /\ Len(chain) < MaxBlocks
    /\ \E a \in BlockArgs : cand' = <<Block(a[1], a[2], a[3], a[4])>>
    /\ last' = Op("Block", 0, "", TRUE)
    /\ UNCHANGED <<chain, ref, difficulty, tampers, got, call>>

\* chain.addBlock(cand): the block just constructed is mined and pushed.
AddBlock ==
    /\ cand # <<>>
    /\ chain' = addBlock(chain, difficulty, cand[1])
    /\ ref' = Append(ref, Len(chain) + 1)
    /\ cand' = <<>>
    /\ last' = Op("addBlock", Len(chain), "", TRUE)
    /\ UNCHANGED <<difficulty, tampers, got, call>>

\* chain.addBlock(chain.chain[j - 1]): the caller appends a block object
\* that the chain holds already (a block it appended before, or the genesis
\* block).
AddStoredBlock ==
    /\ call.pc = "idle"
    /\ cand = <<>>
    /\ tampers = 0
    /\ Len(chain) < MaxBlocks
    /\ \E j \in 1..Len(chain) :
          /\ chain' = addBlockStored(chain, ref, difficulty, j)
          /\ ref' = Append(ref, ref[j])
          /\ last' = Op("addStored", j - 1, "", TRUE)
    /\ UNCHANGED <<difficulty, cand, tampers, got, call>>

\* chain.isChainValid(): last records the value returned and the index at
\* which the loop was left, or that the call threw.
IsChainValid ==
    /\ call.pc = "idle"
    /\ LET r == isChainValidRun(chain)
       IN last' = [Op("isChainValid", r.i, "", r.ret) EXCEPT !.raised = r.raised]
    /\ UNCHANGED <<chain, ref, difficulty, cand, tampers, got, call>>

\* An external write chain[i].f = v with v different from the value held
\* (i is the JavaScript index): every slot that holds the object shows it.
Tamper ==
    /\ cand = <<>>
    /\ tampers < MaxTampers
    /\ \E i \in 0..(Len(chain) - 1), f \in DOMAIN chain[1] :
         \E v \in TamperValues(chain[i + 1], f) :
            /\ v # chain[i + 1][f]
            /\ chain' = [k \in DOMAIN chain |->
                            IF ref[k] = ref[i + 1]
                            THEN [chain[k] EXCEPT ![f] = v]
                            ELSE chain[k]]
            /\ last' = [Op("tamper", i, f, TRUE)
                           EXCEPT !.valid = isChainValid(chain)]
    /\ tampers' = tampers + 1
    /\ UNCHANGED <<ref, difficulty, cand, got, call>>

\* The caller mines its own block: cand.mineBlock(d).
MineBlock ==
    /\ cand # <<>>
    /\ \E d \in 0..MaxDifficulty :
          /\ cand' = <<mineBlock(cand[1], d)>>
          /\ last' = Op("mineBlock", d, "", TRUE)
    /\ UNCHANGED <<chain, ref, difficulty, tampers, got, call>>

\* The chain with its callers and the external writes: the demo is the
\* behaviour NewBlock, AddBlock, NewBlock, AddBlock, IsChainValid, Tamper,
\* IsChainValid.
Next == NewBlock \/ AddBlock \/ IsChainValid \/ Tamper

Spec == Init /\ [][Next]_vars

\* chain.getLatestBlock(): got records the block returned.
GetLatestBlock ==
    /\ call.pc = "idle"
    /\ got' = [block |-> <<getLatestBlock(chain)>>, value |-> Undef]
    /\ last' = Op("getLatestBlock", 0, "", TRUE)
    /\ UNCHANGED <<chain, ref, difficulty, cand, tampers, call>>

\* The chain and the blocks with their callers: blocks may be mined by the
\* caller before they are appended, and the latest block may be read; no
\* external writes.
NextBlock ==
    \/ (Len(chain) < MaxMinedChain /\ NewBlock)
    \/ MineBlock
    \/ AddBlock
    \/ IsChainValid
    \/ GetLatestBlock

SpecBlock == Init /\ [][NextBlock]_vars

\* The chain with callers that may append a block object a second time; no
\* external writes.
NextStored == NewBlock \/ AddBlock \/ AddStoredBlock \/ IsChainValid

SpecStored == Init /\ [][NextStored]_vars

\* The caller calls cand.calculateHash(): got records the value returned.
CalculateHash ==
    /\ cand # <<>>
    /\ got' = [block |-> <<>>, value |-> calculateHash(cand[1])]
    /\ last' = Op("calculateHash", 0, "", TRUE)
    /\ UNCHANGED <<chain, ref, difficulty, cand, tampers, call>>

\* Two external writes in a row on a stored block after the genesis block:
\* chain[i].data = v; chain[i].hash = chain[i].calculateHash(), with v
\* different from the data held, a calculateHash() that returns, and no
\* mining (i is the JavaScript index).
TamperRehash ==
    /\ call.pc = "idle"
    /\ cand = <<>>
    /\ tampers < MaxTampers
    /\ \E i \in 1..(Len(chain) - 1) :
         \E v \in TamperValues(chain[i + 1], "data") :
            LET b1 == [chain[i + 1] EXCEPT !.data = v]
            IN /\ v # chain[i + 1].data
               /\ calculateHash(b1) # TypeError
               /\ chain' = [k \in DOMAIN chain |->
                               IF ref[k] = ref[i + 1]
                               THEN [b1 EXCEPT !.hash = calculateHash(b1)]
                               ELSE chain[k]]
               /\ last' = [Op("rehash", i, "data", TRUE)
                              EXCEPT !.valid = isChainValid(chain)]
    /\ tampers' = tampers + 1
    /\ UNCHANGED <<ref, difficulty, cand, got, call>>

\* The chain with its callers and the external writes that recompute the
\* hash of the block they change.
NextRehash == NewBlock \/ AddBlock \/ IsChainValid \/ TamperRehash

SpecRehash == Init /\ [][NextRehash]_vars

\* An external write chain.difficulty = d, made once, between calls; 200 is
\* longer than any hash text.
SetDifficulty ==
    /\ call.pc = "idle"
    /\ difficulty = InitialDifficulty
    /\ \E d \in (0..MaxDifficulty) \cup {200} :
          /\ d # difficulty
          /\ difficulty' = d
          /\ last' = Op("difficulty", d, "", TRUE)
    /\ UNCHANGED <<chain, ref, cand, tampers, got, call>>

\* The caller enters chain.addBlock(new Block(...)): the block is
\* constructed, its previousHash is set from getLatestBlock().hash (the
\* chain had `seen` blocks then) and mineBlock(this.difficulty) is called.
\* For h in H true, the payload is an object with a toJSON method that
\* returns the block's { amount: ... }.
Enter(H) ==
    /\ call.pc = "idle"
    /\ Len(chain) < MaxBlocks
    /\ \E a \in BlockArgs, h \in H :
          LET newBlock == Block(a[1], a[2],
                                IF h THEN ToJSON(a[3].v) ELSE a[3], a[4])
          IN call' = [pc |-> "mine",
                      block |-> <<[newBlock EXCEPT
                                     !.previousHash =
                                        getLatestBlock(chain).hash]>>,
                      seen |-> Len(chain),
                      d |-> difficulty]
    /\ last' = Op("enter", 0, "", TRUE)
    /\ UNCHANGED <<chain, ref, difficulty, cand, tampers, got>>

\* A pass of mineBlock's loop that abandons the call, the block not pushed,
\* once 3 nonces have been tried.
MineIterWithAttemptLimit ==
    /\ call.pc = "mine"
    /\ MineCondition(call.block[1], call.d)
    /\ IF call.block[1].nonce.n >= 3
       THEN /\ call' = Idle
            /\ last' = Op("abandon", 0, "", TRUE)
       ELSE /\ call' = [call EXCEPT !.block = <<MineBody(call.block[1])>>]
            /\ last' = Op("mineIter", 0, "", TRUE)
    /\ UNCHANGED <<chain, ref, difficulty, cand, tampers, got>>

\* One pass of mineBlock's loop in the addBlock call: the while condition
\* holds, the body runs.  A call whose target is longer than the hash text
\* is followed for MaxMineIter passes; every other call is followed to its
\* end.
MineIter ==
    /\ call.pc = "mine"
    /\ MineCondition(call.block[1], call.d)
    /\ \/ call.d <= Len(call.block[1].hash.s)
       \/ call.block[1].nonce.n < MaxMineIter
    /\ call' = [call EXCEPT !.block = <<MineBody(call.block[1])>>]
    /\ last' = Op("mineIter", 0, "", TRUE)
    /\ UNCHANGED <<chain, ref, difficulty, cand, tampers, got>>

\* A pass of mineBlock's loop in which the payload's toJSON method, called
\* by JSON.stringify in calculateHash(), calls
\* chain.addBlock(new Block(...)) before it returns: that call runs to its
\* end, then the pass completes.  The method does so once in an addBlock
\* call.
MineIterCallsOut ==
    /\ call.pc = "mine"
    /\ MineCondition(call.block[1], call.d)
    /\ call.block[1].data.t = "tojson"
    /\ call.seen = Len(chain)
    /\ \E a \in HookArgs :
          chain' = addBlock(chain, difficulty, Block(a[1], a[2], a[3], a[4]))
    /\ ref' = Append(ref, Len(chain) + 1)
    /\ call' = [call EXCEPT !.block = <<MineBody(call.block[1])>>]
    /\ last' = Op("callOut", Len(chain), "", TRUE)
    /\ UNCHANGED <<difficulty, cand, tampers, got>>

\* The while condition is false: mineBlock returns and addBlock pushes the
\* block.  last.ret records whether the chain is still as long as when the
\* call read getLatestBlock().
Push ==
    /\ call.pc = "mine"
    /\ ~MineCondition(call.block[1], call.d)
    /\ chain' = Append(chain, call.block[1])
    /\ ref' = Append(ref, Len(chain) + 1)
    /\ call' = Idle
    /\ last' = Op("addBlock", Len(chain), "", call.seen = Len(chain))
    /\ UNCHANGED <<difficulty, cand, tampers, got>>

\* chain.isChainValid() in which the toJSON method of a stored block's
\* payload, called when the loop computes that block's hash, calls
\* chain.addBlock(new Block(...)) before it returns.  The loop reads
\* this.chain.length on every pass, so it goes on over the appended block.
IsChainValidCallsOut ==
    /\ call.pc = "idle"
    /\ Len(chain) < MaxBlocks
    /\ \E i \in 1..(Len(chain) - 1) :
          /\ chain[i + 1].data.t = "tojson"
          /\ i <= isChainValidRun(chain).i
    /\ \E a \in HookArgs :
          chain' = addBlock(chain, difficulty, Block(a[1], a[2], a[3], a[4]))
    /\ ref' = Append(ref, Len(chain) + 1)
    /\ LET r == isChainValidRun(chain')
       IN last' = [Op("isChainValid", r.i, "", r.ret) EXCEPT !.raised = r.raised]
    /\ UNCHANGED <<difficulty, cand, tampers, got, call>>

\* One addBlock call at a time, as the program runs, followed pass by pass;
\* the difficulty may be set between calls.
NextMining ==
    \/ SetDifficulty
    \/ Enter({FALSE})
    \/ MineIter
    \/ Push
    \/ IsChainValid

SpecMining == Init /\ [][NextMining]_vars

\* The calls that JSON.stringify makes to a payload's toJSON method while an
\* addBlock or isChainValid call is running: an addBlock made from there
\* runs inside the call that is in progress.
NextInterleaved ==
    \/ Enter({TRUE})
    \/ MineIter
    \/ MineIterCallsOut
    \/ Push
    \/ IsChainValid
    \/ IsChainValidCallsOut

SpecInterleaved == Init /\ [][NextInterleaved]_vars

\* The chain and its read operations; no external writes.
NextReads ==
    NewBlock \/ AddBlock \/ IsChainValid \/ GetLatestBlock \/ CalculateHash

SpecReads == Init /\ [][NextReads]_vars

(* ------------------------------------------------------------------ *)
(* Properties                                                          *)
(* ------------------------------------------------------------------ *)

\* The text h is a string with at least d leading "0" characters.
HasZeros(h, d) ==
    /\ h.t = "str"
    /\ Len(h.s) >= d
    /\ \A k \in 1..d : h.s[k] = 48

\* Both checks of isChainValid hold for the pair of JavaScript indices
\* (i - 1, i).
PairOk(c, i) ==
    /\ ~StrictNotEquals(c[i + 1].hash, calculateHash(c[i + 1]))
    /\ ~StrictNotEquals(c[i + 1].previousHash, c[i].hash)

\* C1: with no external write to the stored blocks, every isChainValid()
\* call on a chain of appended blocks returns true.
C1_UntamperedChainIsValid ==
    (tampers = 0 /\ last.op = "isChainValid") => last.ret = TRUE

\* C2: when mineBlock(d) returns, the block's hash has at least d leading
\* zeros and equals calculateHash() over the block's current fields.
C2_MinePostcondition ==
    last.op = "mineBlock" =>
        /\ HasZeros(cand[1].hash, last.i)
        /\ cand[1].hash = calculateHash(cand[1])

\* C3: with no external write, every stored block, the genesis block
\* included, holds the hash recomputed from its current fields.
C3_ContentIntegrity ==
    tampers = 0 =>
        \A k \in 1..Len(chain) : chain[k].hash = calculateHash(chain[k])

\* C4 as stated: with no external write, after any appends, every stored
\* block after the genesis block holds its predecessor's hash as
\* previousHash.
C4_Linkage ==
    tampers = 0 =>
        \A k \in 2..Len(chain) : chain[k].previousHash = chain[k - 1].hash

\* C4 amended: with no external write, and as long as no block object has
\* been appended twice, every stored block after the genesis block holds
\* its predecessor's hash as previousHash, whatever previousHash the caller
\* constructed it with.
C4_LinkageOfNewBlocks ==
    (tampers = 0 /\ \A k \in DOMAIN ref : ref[k] = k) =>
        \A k \in 2..Len(chain) : chain[k].previousHash = chain[k - 1].hash

\* The demo's first block and then the block constructed with previousHash
\* "0" (the one with the numeric timestamp) have been appended, each after
\* more than 100 passes of the mining loop.
C4_Witness ==
    /\ tampers = 0
    /\ last.op = "addBlock"
    /\ Len(chain) = 3
    /\ \A k \in DOMAIN ref : ref[k] = k
    /\ chain[2].data = Obj(Num(4))
    /\ chain[2].nonce.n > 100
    /\ chain[3].timestamp = Num(1516492800)
    /\ chain[3].nonce.n > 100
    /\ chain[3].previousHash # Str(TxtZero)
    /\ chain[3].previousHash = chain[2].hash

\* C5: with no external write, whatever blocks have been appended, a
\* stored block a second time included, the hash of every stored block
\* after the genesis block starts with at least `difficulty` zeros.
C5_ProofOfWork ==
    tampers = 0 =>
        \A k \in 2..Len(chain) : HasZeros(chain[k].hash, difficulty)

\* The demo's chain: its two blocks have been appended, each after more
\* than 100 passes of the mining loop, and the genesis block's hash does
\* not meet the target.
C5_Witness ==
    /\ tampers = 0
    /\ last.op = "addBlock"
    /\ Len(chain) = 3
    /\ chain[2].data = Obj(Num(4))
    /\ chain[3].data = Obj(Num(24))
    /\ chain[2].nonce.n > 100
    /\ chain[3].nonce.n > 100
    /\ HasZeros(chain[3].hash, difficulty)
    /\ ~HasZeros(chain[1].hash, difficulty)

\* The fields that enter the hash besides previousHash.
ContentFields == {"index", "timestamp", "data", "nonce"}

\* The step is an external write to field f of the stored block at
\* JavaScript index i >= 1 of a chain on which isChainValid() held.
TamperStep(F) ==
    /\ last'.op = "tamper"
    /\ last'.i >= 1
    /\ last'.f \in F
    /\ isChainValid(chain)

\* C6 as stated: on a chain of at least 2 blocks for which isChainValid() is
\* true, storing a different value in the index, timestamp, data or nonce of
\* a block after the genesis block makes isChainValid() return false.
C6_ContentTamperDetected ==
    [][TamperStep(ContentFields) =>
          /\ ~isChainValid(chain')
          /\ ~isChainValidRun(chain').raised]_vars

\* C6 amended: such a write keeps isChainValid() from returning true
\* whenever it changes the text the block's hash is computed over,
\* index + previousHash + timestamp + JSON.stringify(data) + nonce:
\* isChainValid() returns false at that block, or throws there when the new
\* data cannot be serialised.
C6_TextTamperDetected ==
    [][(/\ TamperStep(ContentFields)
        /\ HashedText(chain'[last'.i + 1]) # HashedText(chain[last'.i + 1]))
       => /\ ~isChainValid(chain')
          /\ isChainValidRun(chain').i = last'.i
          /\ isChainValidRun(chain').raised <=>
                (HashedText(chain'[last'.i + 1]) = TypeError)]_vars

\* The demo's tampering: on the demo's chain, valid until then,
\* chain[1].data is overwritten with { amount: 400 } and isChainValid()
\* then returns false.
C6_Witness ==
    /\ last.op = "tamper"
    /\ last.i = 1
    /\ last.f = "data"
    /\ last.valid
    /\ Len(chain) = 3
    /\ chain[2].index = Num(1)
    /\ chain[2].data = Obj(Num(400))
    /\ chain[2].nonce.n > 100
    /\ chain[3].data = Obj(Num(24))
    /\ ~isChainValid(chain)
    /\ ~isChainValidRun(chain).raised

C8_IsChainValidVerdict ==
    last.op = "isChainValid" =>
        /\ last.ret \in BOOLEAN
        /\ ~last.raised
        /\ last.ret <=> \A i \in 1..(Len(chain) - 1) : PairOk(chain, i)
        /\ ~last.ret =>
              /\ last.i \in 1..(Len(chain) - 1)
              /\ ~PairOk(chain, last.i)
              /\ \A j \in 1..(last.i - 1) : PairOk(chain, j)

\* C9: on a chain holding only the genesis block, isChainValid() returns
\* true, whether or not the genesis hash meets the difficulty target or
\* equals its recomputation.
C9_GenesisExemption ==
    (last.op = "isChainValid" /\ Len(chain) = 1) => last.ret = TRUE

\* isChainValid() has returned true on a genesis-only chain whose hash
\* neither meets the target nor equals calculateHash().
C9_Witness ==
    /\ last.op = "isChainValid"
    /\ Len(chain) = 1
    /\ last.ret = TRUE
    /\ ~HasZeros(chain[1].hash, difficulty)
    /\ chain[1].hash # calculateHash(chain[1])

\* C10: addBlock of a block not yet in the chain lengthens the chain by
\* exactly one, puts the candidate last, and leaves the stored blocks, their
\* order and difficulty as they were; no operation of the chain removes or
\* reorders blocks.
C10_AppendOnly ==
    [][/\ last'.op = "addBlock" =>
            /\ Len(chain') = Len(chain) + 1
            /\ SubSeq(chain', 1, Len(chain)) = chain
            /\ chain'[1] = chain[1]
            /\ difficulty' = difficulty
            /\ chain'[Len(chain')].index = cand[1].index
            /\ chain'[Len(chain')].timestamp = cand[1].timestamp
            /\ chain'[Len(chain')].data = cand[1].data
       /\ last'.op \in {"addBlock", "isChainValid", "Block", "mineBlock"} =>
            /\ Len(chain') >= Len(chain)
            /\ SubSeq(chain', 1, Len(chain)) = chain
            /\ difficulty' = difficulty]_vars

\* The demo's second block has been appended behind the genesis block and
\* the demo's first block, after more than 100 passes of the mining loop.
C10_Witness ==
    /\ last.op = "addBlock"
    /\ tampers = 0
    /\ Len(chain) = 3
    /\ chain[1] = createGenesisBlock
    /\ chain[2].data = Obj(Num(4))
    /\ chain[3].data = Obj(Num(24))
    /\ chain[3].nonce.n > 100

\* C11: the chain is never empty, so getLatestBlock() is defined; it returns
\* the last stored block, which is the genesis block while nothing has been
\* appended, becomes the appended block with every addBlock, and is changed
\* by no other operation.
C11_LatestIsLastAppended ==
    /\ [](/\ Len(chain) >= 1
          /\ last.op = "getLatestBlock" =>
                /\ got.block = <<chain[Len(chain)]>>
                /\ Len(chain) = 1 => got.block = <<createGenesisBlock>>)
    /\ [][/\ last'.op = "addBlock" =>
               /\ getLatestBlock(chain').index = cand[1].index
               /\ getLatestBlock(chain').timestamp = cand[1].timestamp
               /\ getLatestBlock(chain').data = cand[1].data
               /\ getLatestBlock(chain').previousHash = chain[Len(chain)].hash
               /\ getLatestBlock(chain') = chain'[Len(chain) + 1]
               /\ Len(chain') = Len(chain) + 1
          /\ last'.op \in {"Block", "isChainValid", "getLatestBlock",
                           "calculateHash"} =>
               getLatestBlock(chain') = getLatestBlock(chain)]_vars

\* getLatestBlock() has returned the demo's second block, appended after
\* the demo's first.
C11_Witness ==
    /\ last.op = "getLatestBlock"
    /\ Len(chain) = 3
    /\ got.block = <<chain[3]>>
    /\ got.block # <<chain[2]>>
    /\ chain[2].data = Obj(Num(4))
    /\ chain[3].data = Obj(Num(24))
    /\ chain[3].nonce.n > 100

\* C12: calculateHash(), isChainValid() and getLatestBlock() change no block
\* field, neither the chain nor difficulty; calculateHash() returns the
\* digest of the block's unchanged fields, and a call repeated with nothing
\* in between returns what the call before it returned.
C12_ReadsArePure ==
    [][/\ last'.op \in {"calculateHash", "isChainValid", "getLatestBlock"} =>
            /\ chain' = chain
            /\ difficulty' = difficulty
            /\ cand' = cand
       /\ last'.op = "calculateHash" => got'.value = calculateHash(cand[1])
       /\ (last.op = "calculateHash" /\ last'.op = "calculateHash") =>
            got'.value = got.value
       /\ (last.op = "isChainValid" /\ last'.op = "isChainValid") =>
            (last'.ret = last.ret /\ last'.i = last.i)
       /\ (last.op = "getLatestBlock" /\ last'.op = "getLatestBlock") =>
            got'.block = got.block]_vars

\* C14: right after new Block(index, timestamp, data, previousHash) the
\* block has nonce 0 and its hash is calculateHash() over its fields as they
\* stand, nonce 0 included.
C14_ConstructPostcondition ==
    last.op = "Block" =>
        /\ cand # <<>>
        /\ cand[1].nonce = Num(0)
        /\ cand[1].hash = calculateHash(cand[1])

\* The block with nonce n and the hash recomputed for it.
WithNonce(b, n) ==
    LET b1 == [b EXCEPT !.nonce = Num(n)]
    IN [b1 EXCEPT !.hash = calculateHash(b1)]

\* C15: mineBlock(d) never changes index, timestamp, data or previousHash;
\* if the hash held at entry has d leading zeros, nonce and hash stay as
\* they were; otherwise it returns with the least nonce above the entry
\* nonce whose recomputed hash has d leading zeros, and with that hash.
C15_LinearSearch ==
    [][last'.op = "mineBlock" =>
         LET b == cand[1]
             r == cand'[1]
             d == last'.i
         IN /\ r.index = b.index
            /\ r.timestamp = b.timestamp
            /\ r.data = b.data
            /\ r.previousHash = b.previousHash
            /\ IF HasZeros(b.hash, d)
               THEN r = b
               ELSE /\ r.nonce.t = "num"
                    /\ r.nonce.n > b.nonce.n
                    /\ r = WithNonce(b, r.nonce.n)
                    /\ HasZeros(r.hash, d)
                    /\ \A n \in (b.nonce.n + 1)..(r.nonce.n - 1) :
                          ~HasZeros(WithNonce(b, n).hash, d)]_vars

\* mineBlock(2) has returned on the demo's second block after more than 100
\* passes of its loop.
C15_Witness ==
    /\ last.op = "mineBlock"
    /\ last.i = 2
    /\ cand # <<>>
    /\ cand[1].data = Obj(Num(24))
    /\ cand[1].nonce.t = "num"
    /\ cand[1].nonce.n > 100
    /\ cand[1].hash = calculateHash(cand[1])
    /\ HasZeros(cand[1].hash, last.i)

\* The candidate's index duplicates, or is lower than, the index of a stored
\* block.
IndexReused(c, b) ==
    /\ b.index.t = "num"
    /\ \E k \in 1..Len(c) :
          c[k].index.t = "num" /\ b.index.n <= c[k].index.n

\* C18: addBlock of a candidate whose index duplicates, or is lower than,
\* the index of a stored block pushes it like any other, and a chain that
\* was valid is still reported valid.
C18_ReusedIndexAccepted ==
    [][(/\ last'.op = "addBlock"
        /\ isChainValid(chain)
        /\ IndexReused(chain, cand[1])) =>
          /\ Len(chain') = Len(chain) + 1
          /\ chain'[Len(chain')].index = cand[1].index
          /\ isChainValid(chain')]_vars

\* C20: on a valid chain a write to the genesis block's index, timestamp,
\* data, nonce or previousHash leaves isChainValid() true whatever the
\* length; a write to its hash is detected exactly when the chain has at
\* least 2 blocks.
C20_GenesisContentUnverified ==
    [][(/\ last'.op = "tamper"
        /\ last'.i = 0
        /\ isChainValid(chain)) =>
          IF last'.f = "hash"
          THEN isChainValid(chain') <=> (Len(chain) = 1)
          ELSE isChainValid(chain')]_vars

\* A content field of the genesis block of the demo's chain, valid until
\* then, has been overwritten, and the chain is still valid.
C20_Witness ==
    /\ last.op = "tamper"
    /\ last.i = 0
    /\ last.f \in ContentFields
    /\ last.valid
    /\ Len(chain) = 3
    /\ chain[2].data = Obj(Num(4))
    /\ chain[3].data = Obj(Num(24))
    /\ chain[1] # createGenesisBlock
    /\ chain[1].hash = createGenesisBlock.hash
    /\ isChainValid(chain)

\* C13: isChainValid() does not check the difficulty target: when the last
\* block's data is overwritten and its hash set to calculateHash() without
\* mining, a valid chain stays valid whether or not the new hash has
\* `difficulty` leading zeros.
C13_TargetNotChecked ==
    [][(/\ last'.op = "rehash"
        /\ last'.i = Len(chain) - 1
        /\ isChainValid(chain)) =>
          /\ isChainValid(chain')
          /\ isChainValidRun(chain').i = Len(chain)]_vars

\* isChainValid() is true although the last block, rewritten and rehashed
\* without mining, has a hash without `difficulty` leading zeros.
C13_Witness ==
    /\ last.op = "rehash"
    /\ last.i = Len(chain) - 1
    /\ last.i >= 1
    /\ last.valid
    /\ ~HasZeros(chain[Len(chain)].hash, difficulty)
    /\ chain[Len(chain)].hash = calculateHash(chain[Len(chain)])
    /\ isChainValid(chain)

\* The step rewrites the data of an inner block (1 <= i < length - 1) of a
\* valid chain and sets its hash to calculateHash().
InnerRehash ==
    /\ last'.op = "rehash"
    /\ last'.i >= 1
    /\ last'.i < Len(chain) - 1
    /\ isChainValid(chain)

\* C17 as stated: rewriting the data of an inner block of a valid chain and
\* recomputing its hash makes isChainValid() false.
C17_InnerRehashDetected ==
    [][InnerRehash => ~isChainValid(chain')]_vars

\* C17: rewriting the data of an inner block i of a valid chain and
\* recomputing its hash makes isChainValid() false whenever the new data
\* changes the text the hash is computed over: block i passes the hash
\* comparison and the loop returns false at i + 1, where previousHash no
\* longer equals block i's hash.
C17_InnerRehashBreaksLink ==
    [][(/\ InnerRehash
        /\ HashedText(chain'[last'.i + 1]) # HashedText(chain[last'.i + 1])) =>
          /\ ~isChainValid(chain')
          /\ chain'[last'.i + 1].hash = calculateHash(chain'[last'.i + 1])
          /\ chain'[last'.i + 2].previousHash # chain'[last'.i + 1].hash
          /\ isChainValidRun(chain').i = last'.i + 1]_vars

\* The data of the first block of the demo's chain, valid until then, has
\* been rewritten and its hash recomputed, and the chain is no longer
\* valid.
C17_Witness ==
    /\ last.op = "rehash"
    /\ last.valid
    /\ last.i = 1
    /\ Len(chain) = 3
    /\ chain[2].index = Num(1)
    /\ chain[2].data = Obj(Num(400))
    /\ chain[2].nonce.n > 100
    /\ chain[3].data = Obj(Num(24))
    /\ chain[2].hash = calculateHash(chain[2])
    /\ chain[3].previousHash # chain[2].hash
    /\ ~isChainValid(chain)

\* The block of the addBlock call in progress.
Mined == call.block[1]

\* The addBlock call in progress has a target longer than its hash text,
\* and nothing has been pushed since it was entered.
Stuck ==
    /\ call.pc = "mine"
    /\ call.d > Len(Mined.hash.s)
    /\ Len(chain) = call.seen

\* C16: mineBlock(d) returns, and addBlock pushes, as soon as the hash has
\* d leading zeros; while the hash lacks them the loop goes on with the next
\* nonce and its recomputed hash, the chain unchanged; and when d exceeds
\* the length of the hash text no hash has d leading zeros, so the call
\* stays in the loop and the chain stays as it was at entry.
C16_MiningTermination ==
    /\ [](Stuck => ~HasZeros(Mined.hash, call.d))
    /\ [][/\ Stuck => (Stuck' /\ chain' = chain /\ call'.d = call.d)
          /\ (call.pc = "mine" /\ HasZeros(Mined.hash, call.d)) =>
               /\ call'.pc = "idle"
               /\ chain' = Append(chain, Mined)
          /\ (call.pc = "mine" /\ ~HasZeros(Mined.hash, call.d)) =>
               /\ call'.pc = "mine"
               /\ chain' = chain
               /\ call'.block[1] = WithNonce(Mined, Mined.nonce.n + 1)]_vars

\* After the demo's first block was appended at difficulty 2, in more than
\* 100 passes, an addBlock call with a difficulty longer than the hash text
\* is still in its loop after 5 nonces, the chain as it was at entry.
C16_Witness ==
    /\ Stuck
    /\ Mined.nonce.n >= 5
    /\ ~HasZeros(Mined.hash, call.d)
    /\ Len(chain) >= 2
    /\ chain[2].data = Obj(Num(4))
    /\ chain[2].nonce.n > 100

\* The step is the push of the addBlock call in progress.
Pushes ==
    /\ last'.op = "addBlock"
    /\ call.pc = "mine"
    /\ call'.pc = "idle"

\* C19: an addBlock that pushes with no other push since it read
\* getLatestBlock().hash keeps the link; two calls that read before either
\* pushes hold the same previousHash, and the block pushed second, carrying
\* the previousHash of the block pushed first, breaks previousHash = hash of
\* the block before it, so isChainValid() is false.
C19_InterleavedAppendBreaksLink ==
    [][LET n == Len(chain')
       IN /\ (Pushes /\ call.seen = Len(chain)) =>
               chain'[n].previousHash = chain'[n - 1].hash
          /\ (last'.op = "callOut" /\ call.seen = Len(chain)) =>
               chain'[n].previousHash = Mined.previousHash
          /\ (Pushes /\ call.seen = Len(chain) - 1) =>
               /\ chain'[n].previousHash = chain'[n - 1].previousHash
               /\ chain'[n].previousHash # chain'[n - 1].hash
               /\ ~isChainValid(chain')]_vars

====
